---------------------------- MODULE Spec2Model ----------------------------
(* DataScribe: the disk-image mount orchestrator (modules/filesystem.py),  *)
(* the embedded-file heuristic (modules/multimedia.py), the directory      *)
(* traversals (modules/multimedia.py, modules/metadata.py) and the helpers *)
(* of utils/helper.py they rest on; the configuration file of             *)
(* utils/config.py as the command line (datascribe.py) loads and saves it, *)
(* for two processes; and two mount_disk processes on one mount point.     *)
(*                                                                         *)
(* Text is a sequence of one-character strings, so that strip, split,      *)
(* lower and the substring test are computed as Python computes them.      *)
EXTENDS Integers, Sequences, FiniteSets, TLC

VARIABLES
    mnt_dir,        \* what lies at mount_path below any mount: absent, file, empty, nonempty
    mounted,        \* the mounts stacked on mount_path, oldest first
    loops,          \* the loop devices attached (never detached by the program)
    pc,             \* position of the running invocation
    run,            \* the command invoked: mount_disk, unmount_disk, is_embedded_file
    cmds,           \* external commands issued by this invocation, in order
    result,         \* none, ok, fail (error echoed), exit (validation failed), raised; or a boolean
    report,         \* the message echoed to the operator
    listing,        \* what os.listdir(mount_path) found
    loop_device,    \* local of _mount_disk_image
    partitions,     \* local of _mount_disk_image
    choice,         \* local of _mount_disk_image: <<>> until the prompt returns <<n>>
    file,           \* the file given to _is_embedded_file
    binwalk_result, \* local of _is_embedded_file
    embedded_files, \* local of _is_embedded_file
    call,           \* the helper of utils/helper.py last called, with its arguments
    ret,            \* what that call returned or raised
    walk,           \* the traversal command running, with the files it is to visit
    walk_pc,        \* position of the traversal
    todo,           \* files the loop has not reached yet
    probed,         \* files whose processing was started
    matches,        \* the result list of the traversal
    walk_report,    \* lines echoed by the traversal, in order
    config_file,    \* what CONFIG_FILE holds on disk
    inv,            \* the invocations of the command line, one per process
    parked          \* pc, run, cmds, ... of a second mount_disk process while the first runs

os_vars == <<mnt_dir, mounted, loops>>
mount_locals == <<listing, loop_device, partitions, choice>>
embed_locals == <<file, binwalk_result, embedded_files>>
helper_vars == <<call, ret>>
walk_vars == <<walk, walk_pc, todo, probed, matches, walk_report>>
concurrent_vars == <<config_file, inv, parked>>
vars == <<mnt_dir, mounted, loops, pc, run, cmds, result, report,
          listing, loop_device, partitions, choice,
          file, binwalk_result, embedded_files,
          call, ret, walk, walk_pc, todo, probed, matches, walk_report,
          config_file, inv, parked>>

---------------------------------------------------------------------------
(* Bounds *)

MaxLoops == 2
MaxMounts == 2
MaxParts == 2
MaxReportLines == 4

---------------------------------------------------------------------------
(* Python text primitives *)

None == <<"<None>">>

Whitespace == {" ", "\t", "\n"}
Digits == {"0", "1", "2", "3", "4", "5", "6", "7", "8", "9"}
DigitChars == <<"0", "1", "2", "3", "4", "5", "6", "7", "8", "9">>
UpperLetters == <<"A","B","C","D","E","F","G","H","I","J","K","L","M",
                  "N","O","P","Q","R","S","T","U","V","W","X","Y","Z">>
LowerLetters == <<"a","b","c","d","e","f","g","h","i","j","k","l","m",
                  "n","o","p","q","r","s","t","u","v","w","x","y","z">>

RECURSIVE LStrip(_)
LStrip(s) ==
    IF s # <<>> /\ Head(s) \in Whitespace THEN LStrip(Tail(s)) ELSE s

RECURSIVE RStrip(_)
RStrip(s) ==
    IF s # <<>> /\ s[Len(s)] \in Whitespace
    THEN RStrip(SubSeq(s, 1, Len(s) - 1)) ELSE s

\* str.strip()
Strip(s) == RStrip(LStrip(s))

\* str.lower(), one character
LowerChar(c) ==
    IF \E i \in 1..26 : UpperLetters[i] = c
    THEN LowerLetters[CHOOSE i \in 1..26 : UpperLetters[i] = c]
    ELSE c

\* str.lower()
Lower(s) == [i \in 1..Len(s) |-> LowerChar(s[i])]

\* keyword in text
Contains(s, pat) ==
    \E i \in 1..(Len(s) - Len(pat) + 1) : SubSeq(s, i, i + Len(pat) - 1) = pat

\* the first run of non-whitespace characters of an already left-stripped text
RECURSIVE TakeToken(_)
TakeToken(s) ==
    IF s = <<>> \/ Head(s) \in Whitespace THEN <<>>
    ELSE <<Head(s)>> \o TakeToken(Tail(s))

\* str.split()[0]; <<>> when split() is empty
FirstToken(s) == TakeToken(LStrip(s))

\* str.isdigit()
IsDigit(s) == s # <<>> /\ \A i \in 1..Len(s) : s[i] \in Digits

\* str.splitlines()
RECURSIVE SplitLinesFrom(_, _)
SplitLinesFrom(s, cur) ==
    IF s = <<>> THEN (IF cur = <<>> THEN <<>> ELSE <<cur>>)
    ELSE IF Head(s) = "\n" THEN <<cur>> \o SplitLinesFrom(Tail(s), <<>>)
    ELSE SplitLinesFrom(Tail(s), Append(cur, Head(s)))

SplitLines(s) == SplitLinesFrom(s, <<>>)

RECURSIVE JoinLines(_)
JoinLines(ls) ==
    IF ls = <<>> THEN <<>> ELSE Head(ls) \o <<"\n">> \o JoinLines(Tail(ls))

---------------------------------------------------------------------------
(* Exceptions and messages.  A message is a chain of literal pieces        *)
(* followed by one interpolated text.                                      *)

Msg(lits, text) == [lits |-> lits, text |-> text]
NoMsg == Msg(<<>>, <<>>)

Exc(type, lits, text) == [type |-> type, lits |-> lits, text |-> text, stderr |-> None]

\* subprocess.run(..., check=True) on a non-zero exit; stderr is what was captured
CalledProcessError(captured) ==
    [type |-> "CalledProcessError", lits |-> <<"Command returned non-zero exit status">>,
     text |-> <<>>, stderr |-> captured]

\* e.stderr.strip() where e.stderr is None
AttributeError == Exc("AttributeError", <<"'NoneType' object has no attribute 'strip'">>, <<>>)

\* what a subprocess call hands back as stderr: the text if piped, else None
Captured(piped, err) == IF piped THEN err ELSE None

\* the texts a failing tool writes to its standard error
StderrTexts == { <<"E", "1", "\n">>, <<"E", "2">> }

---------------------------------------------------------------------------
(* The operating system as the program sees it *)

\* what a listing of mount_path shows: the top mount's content, else the directory
View ==
    IF mounted # <<>>
    THEN (IF mounted[Len(mounted)].empty THEN "empty" ELSE "nonempty")
    ELSE mnt_dir

\* os.path.exists / isfile / isdir of a path of the given kind
PathKind(v) == IF v \in {"empty", "nonempty"} THEN "dir" ELSE v

\* /dev/loopN
DeviceName(n) == <<"l", "o", "o", "p", DigitChars[n + 1]>>

\* losetup -f takes the first free device and --show prints its name
NextLoop == DeviceName(Cardinality(loops))

\* parted -s <dev> print: a header, k numbered rows, a blank line
RECURSIVE PartedRows(_)
PartedRows(k) ==
    IF k = 0 THEN <<>>
    ELSE PartedRows(k - 1) \o << <<" ", DigitChars[k + 1], " ", "a">> >>

PartedReport(k) ==
    JoinLines(<< <<"N", "u", " ", "S", "t">> >> \o PartedRows(k) \o << <<>> >>)

PartedOutputs == {PartedReport(k) : k \in 0..MaxParts} \cup {<<>>}

\* what the operator may type at the prompt
Choices == (0 - (MaxParts + 1))..(MaxParts + 1)

Cmd(tool, target, opts, ok, err, out) ==
    [tool |-> tool, target |-> target, opts |-> opts, ok |-> ok,
     err |-> IF ok THEN <<>> ELSE err, out |-> IF ok THEN out ELSE <<>>]

Finish(res, msg) == pc' = "done" /\ result' = res /\ report' = msg

---------------------------------------------------------------------------
(* utils/helper.py *)

\* faulty variant: the existence test is left out
check_path_type_no_exists(kind, has_to_be_file) ==
    IF ~has_to_be_file /\ kind = "file"
    THEN Exc("BadParameter", <<"Given path is not a directory: ">>, <<>>)
    ELSE IF has_to_be_file /\ kind = "dir"
    THEN Exc("BadParameter", <<"Given path is not a file: ">>, <<>>)
    ELSE Exc("ok", <<>>, <<>>)

\* check_path_type: "ok", or the BadParameter it raises
check_path_type(kind, has_to_be_file) ==
    IF kind = "absent" THEN Exc("BadParameter", <<"Invalid path: ">>, <<>>)
    ELSE IF ~has_to_be_file /\ kind = "file"
    THEN Exc("BadParameter", <<"Given path is not a directory: ">>, <<>>)
    ELSE IF has_to_be_file /\ kind = "dir"
    THEN Exc("BadParameter", <<"Given path is not a file: ">>, <<>>)
    ELSE Exc("ok", <<>>, <<>>)

\* faulty variant: the captured text is trimmed before it is raised
run_command_error_stripped(err) ==
    Exc("Exception", <<"Command failed: ">>, Strip(Captured(TRUE, err)))

\* run_command: stderr is piped; a non-zero exit raises a plain Exception
run_command_error(err) == Exc("Exception", <<"Command failed: ">>, Captured(TRUE, err))

\* run_command: the value returned on exit status 0
run_command_value(out) == Strip(out)

\* faulty variant: a missing program is raised as an exit failure with no text
run_command_missing_as_failure(program) ==
    Exc("Exception", <<"Command failed: ">>, <<>>)

\* run_command: subprocess.run finds no such program; the OSError it raises
\* passes through run_command, which has no handler; it carries command[0]
run_command_missing(program) ==
    Exc("FileNotFoundError", <<"[Errno 2] No such file or directory: ">>, program)

---------------------------------------------------------------------------
(* modules/filesystem.py: mount_disk and _mount_disk_image *)

\* f"...{e}" prefixed by a literal
Prefixed(lit, e) == Exc("Exception", <<lit>> \o e.lits, e.text)

\* the two handlers closing _mount_disk_image
mount_disk_image_handler(e) ==
    IF e.type = "CalledProcessError"
    THEN (IF e.stderr = None THEN AttributeError
          ELSE Exc("Exception", <<"Error mounting the disk image: ">>, Strip(e.stderr)))
    ELSE Prefixed("An unexpected error occurred: ", e)

\* mount_disk / unmount_disk: except Exception as e: click.echo(f"Error: {e}")
command_echo(e) == Msg(<<"Error: ">> \o e.lits, e.text)

RaiseFromMount(e) == Finish("fail", command_echo(mount_disk_image_handler(e)))

\* faulty variant: the emptiness test never fires
dir_not_empty_never(seen) == FALSE

\* faulty variant: the emptiness test is turned around
dir_not_empty_inverted(seen) == seen = "empty"

\* len(os.listdir(mount_path)) != 0
dir_not_empty(seen) == seen = "nonempty"

\* the mount command of _mount_partition
partition_mount_command(partition, ok, err) ==
    Cmd("mount", partition, "ro,noexec", ok, err, <<>>)

\* faulty variant: the whole-device mount without -o ro,noexec
device_mount_command_plain(device, ok, err) ==
    Cmd("mount", device, "", ok, err, <<>>)

\* the mount command of the except branch of _mount_disk_image
device_mount_command(device, ok, err) ==
    Cmd("mount", device, "ro,noexec", ok, err, <<>>)

\* Python list indexing: partitions[i] for -n <= i < n, else IndexError
index_in_range(i, n) == i >= 0 - n /\ i < n

list_item(l, i) == IF i >= 0 THEN l[i + 1] ELSE l[Len(l) + i + 1]

RECURSIVE partition_rows(_, _)

\* faulty variant: a line yields a descriptor only if its whole first token
\* is a number
partition_rows_numeric(device, lines) ==
    LET stripped == [i \in 1..Len(lines) |-> Strip(lines[i])]
        kept == SelectSeq(stripped, LAMBDA l : IsDigit(FirstToken(l)))
    IN [i \in 1..Len(kept) |-> device \o <<"p">> \o FirstToken(kept[i])]

\* _get_partition_info: the descriptors of a report
partition_rows(device, lines) ==
    IF lines = <<>> THEN <<>>
    ELSE LET line == Strip(Head(lines))
             rest == partition_rows(device, Tail(lines))
         IN IF line = <<>> \/ ~(line[1] \in Digits) THEN rest
            ELSE << device \o <<"p">> \o FirstToken(line) >> \o rest

\* faulty variant: every non-blank line of the report yields a descriptor
RECURSIVE partition_rows_unfiltered(_, _)
partition_rows_unfiltered(device, lines) ==
    IF lines = <<>> THEN <<>>
    ELSE LET line == Strip(Head(lines))
             rest == partition_rows_unfiltered(device, Tail(lines))
         IN IF line = <<>> THEN rest
            ELSE << device \o <<"p">> \o FirstToken(line) >> \o rest

get_partition_info_unfiltered(device, out) ==
    partition_rows_unfiltered(device, SplitLines(out))

get_partition_info(device, out) == partition_rows(device, SplitLines(out))

\* _get_partition_info: its handler; stderr is piped there
get_partition_info_error(err) ==
    Exc("Exception", <<"Error retrieving partition info: ">>, Strip(Captured(TRUE, err)))

ResetLocals_except_file ==
    /\ listing' = "none"
    /\ loop_device' = <<>>
    /\ partitions' = <<>>
    /\ choice' = <<>>
    /\ binwalk_result' = <<>>
    /\ embedded_files' = <<>>

ResetLocals ==
    /\ listing' = "none"
    /\ loop_device' = <<>>
    /\ partitions' = <<>>
    /\ choice' = <<>>
    /\ file' = [readable |-> TRUE, content |-> <<>>]
    /\ binwalk_result' = <<>>
    /\ embedded_files' = <<>>

\* mount_disk: validate the image path, then enter _mount_disk_image
MountDisk(img) ==
    /\ pc \in {"idle", "done"}
    /\ UNCHANGED <<helper_vars, walk_vars, concurrent_vars>>
    /\ Cardinality(loops) < MaxLoops
    /\ Len(mounted) < MaxMounts
    /\ run' = "mount_disk"
    /\ cmds' = <<>>
    /\ ResetLocals
    /\ LET v == check_path_type(img, TRUE)
       IN IF v.type # "ok"
          THEN Finish("exit", Msg(v.lits, v.text))
          ELSE pc' = "ensure_dir" /\ result' = "none" /\ report' = NoMsg
    /\ UNCHANGED os_vars

\* if not os.path.exists(mount_path): sudo mkdir -p
Mount_EnsureDir(ok, err) ==
    /\ pc = "ensure_dir"
    /\ UNCHANGED <<helper_vars, walk_vars, concurrent_vars>>
    /\ IF PathKind(View) = "absent"
       THEN /\ cmds' = Append(cmds, Cmd("mkdir", <<>>, "-p", ok, err, <<>>))
            /\ IF ok
               THEN /\ mnt_dir' = "empty"
                    /\ pc' = "check_empty"
                    /\ UNCHANGED <<result, report>>
               ELSE /\ RaiseFromMount(CalledProcessError(Captured(FALSE, err)))
                    /\ UNCHANGED mnt_dir
       ELSE /\ pc' = "check_empty"
            /\ UNCHANGED <<cmds, mnt_dir, result, report>>
    /\ UNCHANGED <<mounted, loops, run, mount_locals, embed_locals>>

\* if len(os.listdir(mount_path)) != 0: raise
Mount_CheckEmpty ==
    /\ pc = "check_empty"
    /\ UNCHANGED <<helper_vars, walk_vars, concurrent_vars>>
    /\ listing' = View
    /\ IF PathKind(View) = "file"
       THEN RaiseFromMount(Exc("NotADirectoryError", <<"Not a directory: ">>, <<>>))
       ELSE IF PathKind(View) = "absent"
       THEN RaiseFromMount(Exc("FileNotFoundError", <<"No such file or directory: ">>, <<>>))
       ELSE IF dir_not_empty(View)
       THEN RaiseFromMount(Exc("Exception", <<"Dir is not empty: ">>, <<>>))
       ELSE pc' = "setup_loop" /\ UNCHANGED <<result, report>>
    /\ UNCHANGED <<os_vars, run, cmds, loop_device, partitions, choice, embed_locals>>

\* faulty variant: the exit status of losetup is not looked at
setup_loop_device_unchecked(ok) == TRUE

\* _setup_loop_device returns: run_command raises on a non-zero exit status
\* and _setup_loop_device raises that again
setup_loop_device_returns(ok) == ok

\* loop_device = _setup_loop_device(file_path)
Mount_SetupLoop(ok, err) ==
    /\ pc = "setup_loop"
    /\ UNCHANGED <<helper_vars, walk_vars, concurrent_vars>>
    /\ cmds' = Append(cmds, Cmd("losetup", <<>>, "--show -fP", ok, err,
                                NextLoop \o <<"\n">>))
    /\ IF setup_loop_device_returns(ok)
       THEN /\ loop_device' = run_command_value(NextLoop \o <<"\n">>)
            /\ loops' = loops \cup {NextLoop}
            /\ pc' = "get_partitions"
            /\ UNCHANGED <<result, report>>
       ELSE /\ RaiseFromMount(run_command_error(err))
            /\ UNCHANGED <<loop_device, loops>>
    /\ UNCHANGED <<mnt_dir, mounted, run, listing, partitions, choice, embed_locals>>

\* partitions = _get_partition_info(loop_device)
Mount_GetPartitions(ok, out, err) ==
    /\ pc = "get_partitions"
    /\ UNCHANGED <<helper_vars, walk_vars, concurrent_vars>>
    /\ cmds' = Append(cmds, Cmd("parted", loop_device, "-s print", ok, err, out))
    /\ IF ok
       THEN /\ partitions' = get_partition_info(loop_device, out)
            /\ pc' = "prompt"
            /\ UNCHANGED <<result, report>>
       ELSE /\ RaiseFromMount(get_partition_info_error(err))
            /\ UNCHANGED partitions
    /\ UNCHANGED <<os_vars, run, listing, loop_device, choice, embed_locals>>

\* choice = click.prompt(..., type=int, default=1): a number was entered
\* (on text that is no integer click asks again, which changes nothing)
Mount_Prompt(n) ==
    /\ pc = "prompt"
    /\ UNCHANGED <<helper_vars, walk_vars, concurrent_vars>>
    /\ choice' = <<n>>
    /\ pc' = "mount_partition"
    /\ UNCHANGED <<os_vars, run, cmds, result, report, listing, loop_device,
                   partitions, embed_locals>>

\* click.prompt raises Abort on interrupt or end of input; the bare except takes it
Mount_PromptAbort ==
    /\ pc = "prompt"
    /\ UNCHANGED <<helper_vars, walk_vars, concurrent_vars>>
    /\ pc' = "fallback"
    /\ UNCHANGED <<os_vars, run, cmds, result, report, mount_locals, embed_locals>>

\* _mount_partition(partitions[choice - 1], mount_path), inside try ... except:
\* it creates the mount point if missing, then mounts
Mount_Partition(ok, err, fs_empty) ==
    /\ pc = "mount_partition"
    /\ UNCHANGED <<helper_vars, walk_vars, concurrent_vars>>
    /\ mnt_dir' = IF index_in_range(choice[1] - 1, Len(partitions))
                     /\ PathKind(View) = "absent"
                  THEN "empty" ELSE mnt_dir
    /\ IF index_in_range(choice[1] - 1, Len(partitions))
       THEN LET partition == list_item(partitions, choice[1] - 1)
                c == partition_mount_command(partition, ok, err)
            IN /\ cmds' = Append(cmds, c)
               /\ IF ok
                  THEN /\ mounted' = Append(mounted,
                              [dev |-> c.target, opts |-> c.opts, empty |-> fs_empty])
                       /\ Finish("ok", Msg(<<"Partition successfully mounted: ">>, partition))
                  ELSE \* the handler's e.stderr.strip() raises; the bare except takes it
                       /\ pc' = "fallback"
                       /\ UNCHANGED <<mounted, result, report>>
       ELSE \* IndexError, taken by the bare except
            /\ pc' = "fallback"
            /\ UNCHANGED <<cmds, mounted, result, report>>
    /\ UNCHANGED <<loops, run, mount_locals, embed_locals>>

\* except: sudo mount -o ro,noexec loop_device mount_path
Mount_Fallback(ok, err, fs_empty) ==
    /\ pc = "fallback"
    /\ UNCHANGED <<helper_vars, walk_vars, concurrent_vars>>
    /\ LET c == device_mount_command(loop_device, ok, err)
       IN /\ cmds' = Append(cmds, c)
          /\ IF ok
             THEN /\ mounted' = Append(mounted,
                         [dev |-> c.target, opts |-> c.opts, empty |-> fs_empty])
                  /\ Finish("ok", Msg(<<"Disk image successfully mounted: ">>, loop_device))
             ELSE /\ RaiseFromMount(CalledProcessError(Captured(FALSE, err)))
                  /\ UNCHANGED mounted
    /\ UNCHANGED <<mnt_dir, loops, run, mount_locals, embed_locals>>

\* Two mount_disk processes: the variables pc, run, cmds, result, report
\* and the locals of _mount_disk_image belong to the process that runs;
\* those of the other process wait in parked.  Nothing in mount_disk takes
\* a lock, so the operating system may switch between any two steps.
Running ==
    [pc |-> pc, run |-> run, cmds |-> cmds, result |-> result, report |-> report,
     listing |-> listing, loop_device |-> loop_device, partitions |-> partitions,
     choice |-> choice]

\* the scheduler takes the processor from the one process and gives it to
\* the other, unless that one has ended; mount point, mounts and loop
\* devices are the system's
Yield ==
    /\ parked.pc # "done"
    /\ parked' = Running
    /\ pc' = parked.pc
    /\ run' = parked.run
    /\ cmds' = parked.cmds
    /\ result' = parked.result
    /\ report' = parked.report
    /\ listing' = parked.listing
    /\ loop_device' = parked.loop_device
    /\ partitions' = parked.partitions
    /\ choice' = parked.choice
    /\ UNCHANGED <<os_vars, embed_locals, helper_vars, walk_vars, config_file, inv>>

---------------------------------------------------------------------------
(* modules/filesystem.py: unmount_disk and _unmount_disk_image *)

\* the two handlers closing _unmount_disk_image
unmount_disk_image_handler(e) ==
    IF e.type = "CalledProcessError"
    THEN (IF e.stderr = None THEN AttributeError
          ELSE Exc("Exception", <<"Error unmounting the disk image: ">>, Strip(e.stderr)))
    ELSE Prefixed("An unexpected error occurred: ", e)

RaiseFromUnmount(e) == Finish("fail", command_echo(unmount_disk_image_handler(e)))

\* faulty variant: umount run without check=True
umount_unchecked(ok) == TRUE

\* subprocess.run(["sudo", "umount", mount_path], check=True) returns normally
umount_checked(ok) == ok

\* unmount_disk: validate the mount path, then enter _unmount_disk_image
UnmountDisk ==
    /\ pc \in {"idle", "done"}
    /\ UNCHANGED <<helper_vars, walk_vars, concurrent_vars>>
    /\ run' = "unmount_disk"
    /\ cmds' = <<>>
    /\ ResetLocals
    /\ LET v == check_path_type(PathKind(View), FALSE)
       IN IF v.type # "ok"
          THEN Finish("exit", Msg(v.lits, v.text))
          ELSE pc' = "umount" /\ result' = "none" /\ report' = NoMsg
    /\ UNCHANGED os_vars

\* sudo umount mount_path; it can succeed only on a mount point
Unmount_Umount(ok, err) ==
    /\ pc = "umount"
    /\ UNCHANGED <<helper_vars, walk_vars, concurrent_vars>>
    /\ ok => mounted # <<>>
    /\ cmds' = Append(cmds, Cmd("umount", <<>>, "", ok, err, <<>>))
    /\ mounted' = IF ok THEN SubSeq(mounted, 1, Len(mounted) - 1) ELSE mounted
    /\ IF umount_checked(ok)
       THEN pc' = "rm" /\ UNCHANGED <<result, report>>
       ELSE RaiseFromUnmount(CalledProcessError(Captured(FALSE, err)))
    /\ UNCHANGED <<mnt_dir, loops, run, mount_locals, embed_locals>>

\* faulty variant: a successful unmount also detaches the loop devices
Unmount_Rm_detaching(ok, err) ==
    /\ pc = "rm"
    /\ UNCHANGED <<helper_vars, walk_vars, concurrent_vars>>
    /\ ok => mounted = <<>>
    /\ cmds' = Append(cmds, Cmd("rm", <<>>, "-r", ok, err, <<>>))
    /\ IF ok
       THEN /\ mnt_dir' = "absent"
            /\ loops' = {}
            /\ Finish("ok", Msg(<<"Disk image successfully unmounted from ">>, <<>>))
       ELSE /\ RaiseFromUnmount(CalledProcessError(Captured(FALSE, err)))
            /\ UNCHANGED <<mnt_dir, loops>>
    /\ UNCHANGED <<mounted, run, mount_locals, embed_locals>>

\* sudo rm -r mount_path; it cannot remove a directory something is still mounted on
Unmount_Rm(ok, err) ==
    /\ pc = "rm"
    /\ UNCHANGED <<helper_vars, walk_vars, concurrent_vars>>
    /\ ok => mounted = <<>>
    /\ cmds' = Append(cmds, Cmd("rm", <<>>, "-r", ok, err, <<>>))
    /\ IF ok
       THEN /\ mnt_dir' = "absent"
            /\ Finish("ok", Msg(<<"Disk image successfully unmounted from ">>, <<>>))
       ELSE /\ RaiseFromUnmount(CalledProcessError(Captured(FALSE, err)))
            /\ UNCHANGED mnt_dir
    /\ UNCHANGED <<mounted, loops, run, mount_locals, embed_locals>>

---------------------------------------------------------------------------
(* modules/multimedia.py: _is_embedded_file and _is_archive_file *)

\* the keys of archive_signatures, as bytes
archive_signatures ==
    { <<80, 75>>,                       \* PK
      <<82, 97, 114, 33>>,              \* Rar!
      <<31, 139>>,                      \* 1F 8B
      <<66, 90, 104>>,                  \* BZh
      <<55, 122, 188, 175, 39, 28>>,    \* 7z BC AF 27 1C
      <<117, 115, 116, 97, 114>>,       \* ustar
      <<80, 79, 83, 73, 88>> }          \* POSIX

HeaderLen == 8

\* bytes.startswith
StartsWith(b, prefix) ==
    Len(prefix) <= Len(b) /\ SubSeq(b, 1, Len(prefix)) = prefix

\* faulty variant: only the first 4 bytes are read
read_header_short(content) ==
    SubSeq(content, 1, IF Len(content) < 4 THEN Len(content) ELSE 4)

\* f.read(8)
read_header(content) ==
    SubSeq(content, 1, IF Len(content) < HeaderLen THEN Len(content) ELSE HeaderLen)

\* _is_archive_file: an error opening or reading the file is echoed and gives False
is_archive_file(f) ==
    IF ~f.readable THEN FALSE
    ELSE \E signature \in archive_signatures :
            StartsWith(read_header(f.content), signature)

\* any(keyword in line.lower() for keyword in ["tif", "tiff"])
false_positive(line) ==
    \E keyword \in { <<"t", "i", "f">>, <<"t", "i", "f", "f">> } :
        Contains(Lower(line), keyword)

\* faulty variant: the keyword test without lower()
signature_line_case_sensitive(line) ==
    /\ ~(\E keyword \in { <<"t", "i", "f">>, <<"t", "i", "f", "f">> } :
            Contains(line, keyword))
    /\ Strip(line) # <<>>
    /\ IsDigit(FirstToken(line))

\* the test a line passes to be appended to embedded_files
signature_line(line) ==
    /\ ~false_positive(line)
    /\ Strip(line) # <<>>
    /\ IsDigit(FirstToken(line))

\* the loop of _is_embedded_file over the lines of the report
RECURSIVE embedded_lines(_)
embedded_lines(lines) ==
    IF lines = <<>> THEN <<>>
    ELSE (IF signature_line(Head(lines)) THEN <<Head(lines)>> ELSE <<>>)
         \o embedded_lines(Tail(lines))

\* lines = binwalk_result.splitlines(), then the loop
collect_embedded(text) == embedded_lines(SplitLines(text))

EmbeddedThreshold == 2

\* faulty variant: the threshold test with >=
is_embedded_count_inclusive(found) == Len(found) >= EmbeddedThreshold

\* len(embedded_files) > 2
is_embedded_count(found) == Len(found) > EmbeddedThreshold

\* sample file contents, as bytes
FileContents ==
    { <<80, 75, 3, 4>>,
      <<82, 97, 114, 33, 26, 7>>,
      <<31, 139, 8>>,
      <<66, 90, 104, 57>>,
      <<55, 122, 188, 175, 39, 28, 0, 4, 9>>,
      <<117, 115, 116, 97, 114, 0>>,
      <<80, 79, 83, 73, 88>>,
      <<255, 216, 255, 224, 0, 16, 74, 70, 73, 70>>,
      <<>>,
      <<80>>,
      <<55, 122, 188, 175, 39, 29>>,
      <<0, 80, 75>>,
      <<0, 0, 0, 117, 115, 116, 97, 114>> }

Files ==
    {[readable |-> TRUE, content |-> c] : c \in FileContents}
    \cup {[readable |-> FALSE, content |-> c] :
             c \in { <<80, 75, 3, 4>>, <<255, 216, 255, 224, 0, 16, 74, 70, 73, 70>> }}

\* sample lines of a binwalk report
SampleLines ==
    { <<"0", " ", "J", "P">>,
      <<"1", "2", " ", "T", "i", "f", "F">>,
      <<" ", " ">>,
      <<" ", "7", " ", "Z", "i", "p">>,
      <<"3", "x", " ", "t", "i">> }

BinwalkOutputs ==
    {JoinLines(ls) : ls \in UNION {[1..n -> SampleLines] : n \in 0..MaxReportLines}}

\* _is_embedded_file is entered
IsEmbeddedFile(f) ==
    /\ pc \in {"idle", "done"}
    /\ UNCHANGED <<helper_vars, walk_vars, concurrent_vars>>
    /\ run' = "is_embedded_file"
    /\ cmds' = <<>>
    /\ ResetLocals_except_file
    /\ file' = f
    /\ pc' = "archive_check"
    /\ result' = "none"
    /\ report' = NoMsg
    /\ UNCHANGED os_vars

\* Step 1: if _is_archive_file(file_path): return True
Embed_ArchiveCheck ==
    /\ pc = "archive_check"
    /\ UNCHANGED <<helper_vars, walk_vars, concurrent_vars>>
    /\ IF is_archive_file(file)
       THEN Finish("True", NoMsg)
       ELSE /\ pc' = "scan"
            /\ result' = result
            /\ report' = IF file.readable THEN NoMsg
                         ELSE Msg(<<"Error checking for archive type: ">>, <<>>)
    /\ UNCHANGED <<os_vars, run, cmds, mount_locals, embed_locals>>

\* Step 2: binwalk_result = run_command(["binwalk", file_path]); only
\* subprocess.CalledProcessError is handled, run_command raises a plain Exception
Embed_RunBinwalk(ok, out, err) ==
    /\ pc = "scan"
    /\ UNCHANGED <<helper_vars, walk_vars, concurrent_vars>>
    /\ cmds' = Append(cmds, Cmd("binwalk", <<>>, "", ok, err, out))
    /\ IF ok
       THEN /\ binwalk_result' = run_command_value(out)
            /\ pc' = "count"
            /\ UNCHANGED <<result, report>>
       ELSE /\ UNCHANGED binwalk_result
            /\ LET e == run_command_error(err)
               IN IF e.type = "CalledProcessError"
                  THEN Finish("False", Msg(<<"Error analyzing file: ">>, e.stderr))
                  ELSE Finish("raised", Msg(e.lits, e.text))
    /\ UNCHANGED <<os_vars, run, mount_locals, file, embedded_files>>

\* Step 2 when no binwalk binary is on the search path: run_command lets the
\* FileNotFoundError through, and the handler of _is_embedded_file does not
\* take it either
Embed_BinwalkMissing ==
    /\ pc = "scan"
    /\ UNCHANGED <<helper_vars, walk_vars, concurrent_vars>>
    /\ LET e == run_command_missing(<<"b", "i", "n", "w", "a", "l", "k">>)
       IN IF e.type = "CalledProcessError"
          THEN Finish("False", Msg(<<"Error analyzing file: ">>, e.stderr))
          ELSE Finish("raised", Msg(e.lits, e.text))
    /\ UNCHANGED <<os_vars, run, cmds, mount_locals, embed_locals>>

\* the loop over the report lines and the threshold test
Embed_Count ==
    /\ pc = "count"
    /\ UNCHANGED <<helper_vars, walk_vars, concurrent_vars>>
    /\ embedded_files' = collect_embedded(binwalk_result)
    /\ Finish(IF is_embedded_count(collect_embedded(binwalk_result))
              THEN "True" ELSE "False", report)
    /\ UNCHANGED <<os_vars, run, cmds, mount_locals, file, binwalk_result>>

---------------------------------------------------------------------------
(* utils/helper.py: the helpers called on their own *)

\* how a call ends: the value returned, or the exception raised
Returned(v) == [type |-> "return", lits |-> <<>>, text |-> <<>>, value |-> v]
Raised(e) == [type |-> e.type, lits |-> e.lits, text |-> e.text, value |-> <<>>]

\* what the operating system makes of one subprocess.run: no such program, or
\* a process that ends with an exit status and the two captured streams
Proc(found, returncode, stdout, stderr) ==
    [found |-> found,
     returncode |-> IF found THEN returncode ELSE 0,
     stdout |-> IF found THEN stdout ELSE <<>>,
     stderr |-> IF found THEN stderr ELSE <<>>]

\* run_command(command), where procs[i] is what the i-th subprocess.run of the
\* call would meet; the function body holds one subprocess.run and no loop
run_command(command, procs) ==
    LET p == procs[1]
    IN [outcome |-> IF ~p.found THEN Raised(run_command_missing(command[1]))
                    ELSE IF p.returncode # 0 THEN Raised(run_command_error(p.stderr))
                    ELSE Returned(run_command_value(p.stdout)),
        spawned |-> IF p.found THEN 1 ELSE 0]

\* the tools _run_disk_tool has a command for; each command starts with the
\* tool's own name
DiskTools ==
    { <<"f", "d", "i", "s", "k">>, <<"p", "a", "r", "t", "e", "d">>,
      <<"f", "i", "l", "e">>, <<"d", "i", "s", "k", "t", "y", "p", "e">>,
      <<"e", "w", "f", "i", "n", "f", "o">> }

\* _run_disk_tool(tool, file_path); in a message, lits are the literal pieces
\* of the f-string and text its interpolated values, both in order
run_disk_tool(tool, procs) ==
    IF tool \notin DiskTools
    THEN [outcome |-> Raised(Exc("Exception",
                                 <<"An unexpected error occurred with '", "': ",
                                   "Unsupported tool: ">>, tool \o tool)),
          spawned |-> 0]
    ELSE LET r == run_command(<<tool>>, procs)
             e == r.outcome
         IN IF e.type = "return" THEN r
            ELSE IF e.type = "FileNotFoundError"
            THEN [r EXCEPT !.outcome =
                     Raised(Exc("Exception",
                                <<"Tool '", "' is not installed or not in the PATH.">>,
                                tool))]
            ELSE IF e.type = "CalledProcessError"
            THEN [r EXCEPT !.outcome =
                     Raised(Exc("Exception", <<"Error running '", "': ">>, tool))]
            ELSE [r EXCEPT !.outcome =
                     Raised(Exc("Exception",
                                <<"An unexpected error occurred with '", "': ">> \o e.lits,
                                tool \o e.text))]

\* _get_partition_info(loop_device), where procs[1] is what its one
\* subprocess.run meets; only CalledProcessError has a handler
get_partition_info_run(device, procs) ==
    LET p == procs[1]
    IN [outcome |-> IF ~p.found THEN Raised(run_command_missing(<<"s", "u", "d", "o">>))
                    ELSE IF p.returncode # 0
                    THEN Raised(get_partition_info_error(p.stderr))
                    ELSE Returned(get_partition_info(device, p.stdout)),
        spawned |-> IF p.found THEN 1 ELSE 0]

\* no call made, and a call that has not ended yet
NoCall == [fn |-> "none", args |-> <<>>]
Pending ==
    [outcome |-> [type |-> "none", lits |-> <<>>, text |-> <<>>, value |-> <<>>],
     spawned |-> 0]

\* the helper named by call is entered with the arguments of call
Entered(fn) == call.fn = fn /\ ret = Pending

not_helper_vars ==
    <<os_vars, pc, run, cmds, result, report, mount_locals, embed_locals, walk_vars,
      concurrent_vars>>

\* run_command(command) runs to its end
Call_run_command ==
    /\ Entered("run_command")
    /\ ret' = run_command(<<call.args[1]>>, call.args[2])
    /\ UNCHANGED <<call, not_helper_vars>>

\* _run_disk_tool(tool, file_path) runs to its end
Call_run_disk_tool ==
    /\ Entered("run_disk_tool")
    /\ ret' = run_disk_tool(call.args[1], call.args[2])
    /\ UNCHANGED <<call, not_helper_vars>>

\* _get_partition_info(loop_device) runs to its end
Call_get_partition_info ==
    /\ Entered("get_partition_info")
    /\ ret' = get_partition_info_run(call.args[1], call.args[2])
    /\ UNCHANGED <<call, not_helper_vars>>

\* the report lines tried: a header, numbered rows with and without
\* leading blanks, a row whose first token is no number, a row that starts
\* with a letter, and lines of nothing or of blanks only
ReportLines ==
    { <<"N", "u", " ", "S", "t">>, <<" ", "1", " ", "a">>, <<"2", "\t", "b">>,
      <<"1", "x", " ", "a">>, <<" ", "x", "1">>, <<>>, <<" ", " ">> }

\* calls of _get_partition_info; args[3] holds the lines of the report
PartitionCalls ==
    {[fn |-> "get_partition_info",
      args |-> <<dev, <<Proc(TRUE, 0, JoinLines(ls), <<>>)>>, ls>>] :
        dev \in {DeviceName(0), DeviceName(1)},
        ls \in UNION {[1..n -> ReportLines] : n \in 0..MaxReportLines}}
    \cup {[fn |-> "get_partition_info", args |-> <<DeviceName(0), <<pr>>, <<>>>>] :
             pr \in {Proc(FALSE, 0, <<>>, <<>>), Proc(TRUE, 1, <<>>, <<"e", "\n">>)}}

\* the calls of the command runner that are tried: three programs, and for
\* each of two process starts every mix of found or not, exit status and
\* captured texts
RunnerCalls ==
    LET Programs == { <<"s", "t", "a", "t">>, <<"f", "d", "i", "s", "k">>, <<"x">> }
        StdoutTexts == { <<>>, <<" ", "o", "k", "\n">>, <<"a", " ", "b">>, <<"\n", "\t">> }
        Procs == {Proc(fd, rc, out, err) :
                     fd \in BOOLEAN, rc \in {0, 1, 2}, out \in StdoutTexts,
                     err \in StderrTexts \cup {<<>>}}
    IN {[fn |-> f, args |-> <<program, procs>>] :
           f \in {"run_command", "run_disk_tool"}, program \in Programs,
           procs \in [1..2 -> Procs]}

---------------------------------------------------------------------------
(* utils/helper.py: resolve_path and check_path_type *)

\* A path is the sequence of its separators "/" and the names between them.
IsPath(p) == \A i \in 1..(Len(p) - 1) : p[i] = "/" \/ p[i + 1] = "/"

\* os.path.isabs
isabs(p) == p # <<>> /\ p[1] = "/"

\* os.path.join of two paths
join(a, b) ==
    IF isabs(b) THEN b
    ELSE IF a = <<>> \/ a[Len(a)] = "/" THEN a \o b
    ELSE a \o <<"/">> \o b

\* the loop of os.path.normpath over the components; empty components
\* (between two separators) are skipped, as "." is
RECURSIVE norm_comps(_, _, _)
norm_comps(p, rooted, new_comps) ==
    IF p = <<>> THEN new_comps
    ELSE LET comp == Head(p)
             n == Len(new_comps)
         IN IF comp \in {"/", "."} THEN norm_comps(Tail(p), rooted, new_comps)
            ELSE IF \/ comp # ".."
                    \/ (~rooted /\ n = 0)
                    \/ (n > 0 /\ new_comps[n] = "..")
            THEN norm_comps(Tail(p), rooted, Append(new_comps, comp))
            ELSE IF n > 0
            THEN norm_comps(Tail(p), rooted, SubSeq(new_comps, 1, n - 1))
            ELSE norm_comps(Tail(p), rooted, new_comps)

\* sep.join(comps)
RECURSIVE sep_join(_)
sep_join(comps) ==
    IF comps = <<>> THEN <<>>
    ELSE IF Len(comps) = 1 THEN comps
    ELSE <<Head(comps), "/">> \o sep_join(Tail(comps))

\* os.path.normpath: exactly two leading separators are kept, three or more
\* become one
normpath(p) ==
    IF p = <<>> THEN <<".">>
    ELSE LET initial_slashes ==
                 IF ~isabs(p) THEN 0
                 ELSE IF Len(p) >= 2 /\ p[2] = "/" /\ ~(Len(p) >= 3 /\ p[3] = "/")
                 THEN 2 ELSE 1
             body == sep_join(norm_comps(p, initial_slashes > 0, <<>>))
             path == [i \in 1..initial_slashes |-> "/"] \o body
         IN IF path = <<>> THEN <<".">> ELSE path

\* os.path.abspath in the process's current directory cwd
abspath(p, cwd) == normpath(IF isabs(p) THEN p ELSE join(cwd, p))

\* faulty variant: a relative path is resolved from the current directory
resolve_path_from_cwd(ctx_path, path, cwd) == abspath(path, cwd)

\* resolve_path(ctx_path, path)
resolve_path(ctx_path, path, cwd) ==
    IF isabs(path) THEN abspath(path, cwd)
    ELSE abspath(join(ctx_path, path), cwd)

\* the current directory of the process
Cwd == <<"/", "w">>

MaxPathLen == 4

\* the paths a user may give
UserPaths ==
    {p \in UNION {[1..n -> {"/", ".", "..", "a", "b"}] : n \in 0..MaxPathLen} :
        IsPath(p)}
    \cup { <<"/", "etc", "/", "passwd">>, <<"images", "/", "photo.jpg">> }

\* the working directories tried
BaseDirs ==
    { <<"/", "work">>, <<"/", "home", "/", "user", "/", "case">>, <<"/">>,
      <<"/", "a", "/">>, <<"/", "a", "/", "..", "/", "b">>, <<"c">> }

\* a call of resolve_path
Call_resolve_path ==
    /\ Entered("resolve_path")
    /\ ret' = [outcome |-> Returned(resolve_path(call.args[1], call.args[2], Cwd)),
               spawned |-> 0]
    /\ UNCHANGED <<call, not_helper_vars>>

ResolveCalls ==
    {[fn |-> "resolve_path", args |-> <<b, p>>] : b \in BaseDirs, p \in UserPaths}

\* what os.path.exists, isfile and isdir can say of a path: nothing there, a
\* regular file, a directory, or something else (a device, a socket)
HelperPathKinds == {"absent", "file", "dir", "other"}

\* a call of check_path_type, given the kind of what its resolved path names
Call_check_path_type ==
    /\ Entered("check_path_type")
    /\ LET e == check_path_type(call.args[1], call.args[2])
       IN ret' = [outcome |-> IF e.type = "ok" THEN Returned(<<>>) ELSE Raised(e),
                  spawned |-> 0]
    /\ UNCHANGED <<call, not_helper_vars>>

CheckCalls ==
    {[fn |-> "check_path_type", args |-> <<k, f>>] :
        k \in HelperPathKinds, f \in BOOLEAN}

---------------------------------------------------------------------------
(* utils/helper.py: parse_size_from_string and parse_size_to_string *)

(* Byte counts run past 2^31, so a natural number is kept as the sequence  *)
(* of its base-1024 digits, lowest first, with no zero on top; <<>> is 0.  *)
(* Python's int is unbounded, and its float is exact on every value met    *)
(* here: integers below 2^53, divided or multiplied by powers of 1024,     *)
(* and decimal numbers of few digits whose product with the unit is below  *)
(* 2^51.                                                                   *)

Base == 1024

RECURSIVE Canon(_)
Canon(x) ==
    IF x # <<>> /\ x[Len(x)] = 0 THEN Canon(SubSeq(x, 1, Len(x) - 1)) ELSE x

\* the digits of a small number n
RECURSIVE FromInt(_)
FromInt(n) ==
    IF n = 0 THEN <<>> ELSE <<n % Base>> \o FromInt(n \div Base)

\* the value of few digits
RECURSIVE ToInt(_)
ToInt(x) ==
    IF x = <<>> THEN 0 ELSE Head(x) + Base * ToInt(Tail(x))

\* x * c for a small factor c
RECURSIVE MulCarry(_, _, _)
MulCarry(x, c, carry) ==
    IF x = <<>> THEN FromInt(carry)
    ELSE LET v == Head(x) * c + carry
         IN <<v % Base>> \o MulCarry(Tail(x), c, v \div Base)

MulSmall(x, c) == Canon(MulCarry(x, c, 0))

\* floor(x / d) for a small divisor d, by long division from the top digit
RECURSIVE DivFromTop(_, _, _)
DivFromTop(x, d, rem) ==
    IF x = <<>> THEN <<>>
    ELSE LET cur == rem * Base + x[Len(x)]
         IN Append(DivFromTop(SubSeq(x, 1, Len(x) - 1), d, cur % d), cur \div d)

DivSmall(x, d) == Canon(DivFromTop(x, d, 0))

\* x * 1024^k
ShiftUp(x, k) == IF x = <<>> THEN <<>> ELSE [i \in 1..k |-> 0] \o x

RECURSIVE Pow10(_)
Pow10(j) == IF j = 0 THEN 1 ELSE 10 * Pow10(j - 1)

\* str.endswith and str.removesuffix
EndsWith(s, suffix) ==
    Len(s) >= Len(suffix) /\ SubSeq(s, Len(s) - Len(suffix) + 1, Len(s)) = suffix

RemoveSuffix(s, suffix) ==
    IF EndsWith(s, suffix) THEN SubSeq(s, 1, Len(s) - Len(suffix)) ELSE s

\* str.replace(",", ".")
ReplaceComma(s) == [i \in 1..Len(s) |-> IF s[i] = "," THEN "." ELSE s[i]]

\* the value of a run of decimal digits
RECURSIVE DigitsValue(_)
DigitsValue(s) ==
    IF s = <<>> THEN 0
    ELSE 10 * DigitsValue(SubSeq(s, 1, Len(s) - 1))
         + ((CHOOSE i \in 1..10 : DigitChars[i] = s[Len(s)]) - 1)

\* float(text) for plain decimal text: surrounding whitespace, a sign,
\* digits with at most one point and at least one digit.  The value is
\* mantissa / 10^scale.  Exponents, underscores, inf and nan do not occur
\* in the texts tried.
float_of(text) ==
    LET t == Strip(text)
        signed == t # <<>> /\ t[1] \in {"+", "-"}
        body == IF signed THEN Tail(t) ELSE t
        points == {i \in 1..Len(body) : body[i] = "."}
        digits == SelectSeq(body, LAMBDA c : c # ".")
        wellformed == /\ Cardinality(points) <= 1
                      /\ IsDigit(digits)
        scale == IF points = {} THEN 0
                 ELSE Len(body) - (CHOOSE i \in points : TRUE)
    IN IF wellformed
       THEN [ok |-> TRUE, neg |-> signed /\ t[1] = "-",
             mantissa |-> DigitsValue(digits), scale |-> scale]
       ELSE [ok |-> FALSE, neg |-> FALSE, mantissa |-> 0, scale |-> 0]

\* faulty variant: the bare byte unit is tried first
units_byte_first ==
    << [name |-> <<"b">>, power |-> 0],
       [name |-> <<"t", "b">>, power |-> 4],
       [name |-> <<"g", "b">>, power |-> 3],
       [name |-> <<"m", "b">>, power |-> 2],
       [name |-> <<"k", "b">>, power |-> 1] >>

\* the units dictionary, in its insertion order, with the power of 1024
units ==
    << [name |-> <<"t", "b">>, power |-> 4],
       [name |-> <<"g", "b">>, power |-> 3],
       [name |-> <<"m", "b">>, power |-> 2],
       [name |-> <<"k", "b">>, power |-> 1],
       [name |-> <<"b">>, power |-> 0] >>

\* an int: sign and magnitude
PyInt(neg, mag) == [neg |-> neg /\ mag # <<>>, mag |-> mag]

\* int(value * units[unit]): truncation toward zero
int_of_product(value, power) ==
    PyInt(value.neg, DivSmall(ShiftUp(FromInt(value.mantissa), power), Pow10(value.scale)))

\* parse_size_from_string(size_str)
parse_size_from_string(size_str) ==
    LET s == ReplaceComma(Lower(Strip(size_str)))
        hits == {i \in 1..Len(units) : EndsWith(s, units[i].name)}
    IN IF hits = {}
       THEN Raised(Exc("ValueError", <<"Unknown size unit in: ">>, s))
       ELSE LET unit == units[CHOOSE i \in hits : \A k \in hits : i <= k]
                numeric_part == RemoveSuffix(s, unit.name)
                value == float_of(numeric_part)
            IN IF value.ok THEN Returned(int_of_product(value, unit.power))
               ELSE Raised(Exc("ValueError", <<"Invalid size value: ">>, s))

\* the decimal text of a small number
RECURSIVE IntText(_)
IntText(n) ==
    IF n < 10 THEN <<DigitChars[n + 1]>>
    ELSE IntText(n \div 10) \o <<DigitChars[(n % 10) + 1]>>

UnitNames == << <<"B">>, <<"K", "B">>, <<"M", "B">>, <<"G", "B">>, <<"T", "B">> >>

\* faulty variant: the loop gives up one unit early
RECURSIVE unit_index_short(_, _)
unit_index_short(x, unit_index) ==
    IF Len(x) - unit_index >= 2 /\ unit_index < Len(UnitNames) - 2
    THEN unit_index_short(x, unit_index + 1)
    ELSE unit_index

\* the while loop: size is x / 1024^unit_index, and size >= 1024 exactly when
\* x has two digits or more above position unit_index
RECURSIVE unit_index_of(_, _)
unit_index_of(x, unit_index) ==
    IF Len(x) - unit_index >= 2 /\ unit_index < Len(UnitNames) - 1
    THEN unit_index_of(x, unit_index + 1)
    ELSE unit_index

\* faulty variant: the tenths are cut off, not rounded
tenths_cut(x, k) ==
    ToInt(SubSeq(MulSmall(x, 10), k + 1, Len(MulSmall(x, 10))))

\* f"{size:.1f}" for size = x / 1024^k: the number of tenths nearest to the
\* exact value, the even one on a tie
tenths(x, k) ==
    LET t == MulSmall(x, 10)
        whole == ToInt(SubSeq(t, k + 1, Len(t)))
        top == IF k >= 1 /\ Len(t) >= k THEN t[k] ELSE 0
        below_zero == \A i \in 1..(k - 1) : i > Len(t) \/ t[i] = 0
        over == top > Base \div 2 \/ (top = Base \div 2 /\ ~below_zero)
        tie == top = Base \div 2 /\ below_zero
    IN IF over \/ (tie /\ whole % 2 = 1) THEN whole + 1 ELSE whole

\* parse_size_to_string(size_bytes) for size_bytes >= 0
parse_size_to_string(size_bytes) ==
    LET k == unit_index_of(size_bytes, 0)
        q == tenths(size_bytes, k)
    IN IntText(q \div 10) \o <<".", DigitChars[(q % 10) + 1], " ">> \o UnitNames[k + 1]

\* a size text as a user writes it: a whole part, an optional decimal
\* separator with fraction digits, an optional space, a unit
SizeText(n) ==
    IntText(n.whole)
    \o (IF n.sep = "" THEN <<>> ELSE <<n.sep>> \o n.frac)
    \o (IF n.spaced THEN <<" ">> ELSE <<>>)
    \o n.unit

\* the five units in the letter cases tried
UnitSpellings ==
    { <<"b">>, <<"B">>,
      <<"k", "b">>, <<"K", "B">>, <<"K", "b">>, <<"k", "B">>,
      <<"m", "b">>, <<"M", "B">>, <<"M", "b">>,
      <<"g", "b">>, <<"G", "B">>, <<"g", "B">>,
      <<"t", "b">>, <<"T", "B">>, <<"T", "b">> }

\* suffixes that are no unit
NoUnits == { <<"x", "x">>, <<>>, <<"k">>, <<"b", "x">> }

SizeNumbers ==
    LET WholeParts == {0, 1, 5, 24, 64, 1023}
        FracParts == { <<"5">>, <<"0">>, <<"2", "5">>, <<"9">> }
    IN {[kind |-> "number", whole |-> w, sep |-> "", frac |-> <<>>,
         spaced |-> sp, unit |-> u] :
           w \in WholeParts, sp \in BOOLEAN, u \in UnitSpellings \cup NoUnits}
       \cup {[kind |-> "number", whole |-> w, sep |-> s, frac |-> f,
              spaced |-> sp, unit |-> u] :
           w \in WholeParts, s \in {".", ","}, f \in FracParts, sp \in BOOLEAN,
           u \in UnitSpellings \cup NoUnits}

\* texts whose numeric part is no number
BadNumberTexts ==
    { <<"m", "b">>, <<"1", ".", "2", ".", "3", "k", "b">>, <<"5", "x", "b">>,
      <<"1", ",", "5", ",", "g", "b">>, <<".", "b">>, <<"1", " ", "5", "k", "b">> }

\* a call of parse_size_from_string; args[2] tells where the text came from
Call_parse_size_from_string ==
    /\ Entered("parse_size_from_string")
    /\ ret' = [outcome |-> parse_size_from_string(call.args[1]), spawned |-> 0]
    /\ UNCHANGED <<call, not_helper_vars>>

ParseCalls ==
    {[fn |-> "parse_size_from_string", args |-> <<SizeText(n), n>>] :
        n \in SizeNumbers}

BadParseCalls ==
    {[fn |-> "parse_size_from_string", args |-> <<t, [kind |-> "text"]>>] :
        t \in BadNumberTexts}

\* texts whose number carries a sign
SignedParseCalls ==
    LET SignedTexts ==
            { <<"-", "5", "k", "b">>, <<"-", "1", ".", "5", "m", "b">>,
              <<"+", "2", "k", "b">>, <<"-", "0", "b">>, <<"-", "0", ".", "4", "b">>,
              <<" ", "-", "1", "b">> }
    IN {[fn |-> "parse_size_from_string", args |-> <<t, [kind |-> "signed"]>>] :
           t \in SignedTexts}

\* byte counts, by their base-1024 digits; all are below 2^53
ByteCounts ==
    LET DigitSamples == {0, 1, 51, 512, 1023}
    IN {Canon(<<a, b, c, d, e, f>>) :
           a \in DigitSamples, b \in DigitSamples, c \in DigitSamples,
           d \in DigitSamples, e \in DigitSamples, f \in {0, 1}}
       \cup {FromInt(1536), FromInt(1280), FromInt(1792), FromInt(1073741824)}

\* a call of parse_size_to_string
Call_parse_size_to_string ==
    /\ Entered("parse_size_to_string")
    /\ ret' = [outcome |-> Returned(parse_size_to_string(call.args[1])),
               spawned |-> 0]
    /\ UNCHANGED <<call, not_helper_vars>>

FormatCalls ==
    {[fn |-> "parse_size_to_string", args |-> <<b>>] : b \in ByteCounts}

\* the text parse_size_to_string returned is given to parse_size_from_string
Call_parse_formatted ==
    /\ call.fn = "parse_size_to_string"
    /\ ret.outcome.type = "return"
    /\ call' = [fn |-> "parse_size_from_string",
                args |-> <<ret.outcome.value,
                           [kind |-> "formatted", bytes |-> call.args[1]]>>]
    /\ ret' = [outcome |-> parse_size_from_string(ret.outcome.value), spawned |-> 0]
    /\ UNCHANGED not_helper_vars

---------------------------------------------------------------------------
(* Directory traversals: search_embedded_files (modules/multimedia.py),    *)
(* find_files_by_date and find_files_by_size (modules/metadata.py)         *)

\* _is_embedded_file(file_path) as one call: what it returns or raises
is_embedded_file(f, procs) ==
    IF is_archive_file(f) THEN Returned("True")
    ELSE LET r == run_command(<<"binwalk">>, procs).outcome
         IN IF r.type = "return"
            THEN Returned(IF is_embedded_count(collect_embedded(r.value))
                          THEN "True" ELSE "False")
            ELSE IF r.type = "CalledProcessError" THEN Returned("False")
            ELSE r

MaxWalkFiles == 3

\* the files os.walk or find may list: an archive, a plain file, an
\* unreadable file
WalkFiles ==
    { [readable |-> TRUE, content |-> <<80, 75, 3, 4>>],
      [readable |-> TRUE, content |-> <<>>],
      [readable |-> FALSE, content |-> <<80, 75, 3, 4>>] }

WalkLists == UNION {[1..n -> WalkFiles] : n \in 0..MaxWalkFiles}

\* what a tool run for one file may meet: no binary, a failure, or success
\* with an empty report or one of three signature lines
WalkProcs ==
    LET three == JoinLines(<< <<"0", " ", "J", "P">>, <<" ", "7", " ", "Z", "i", "p">>,
                              <<"0", " ", "J", "P">> >>)
        ps == {Proc(FALSE, 0, <<>>, <<>>), Proc(TRUE, 1, <<>>, <<"E", "2">>),
               Proc(TRUE, 0, <<>>, <<>>), Proc(TRUE, 0, three, <<>>)}
    IN {<<p, p>> : p \in ps}

\* a line echoed by a traversal, with the position of the file it is about
Line(lit, at) == [lit |-> lit, at |-> at]

\* the position in walk.files of the file at the head of todo, while the
\* loop runs over walk.files
Position == Len(walk.files) - Len(todo) + 1

\* the command starts, one command to a process: check_path_type(...,
\* has_to_be_file=False); on failure the error is echoed and the process exits
StartWalk(cmd, kind, files) ==
    /\ walk_pc = "idle"
    /\ kind # "dir" => files = <<>>
    /\ walk' = [cmd |-> cmd, files |-> files, between |-> FALSE]
    /\ probed' = {}
    /\ matches' = <<>>
    /\ todo' = files
    /\ LET e == check_path_type(kind, FALSE)
       IN IF e.type = "ok"
          THEN walk_pc' = "loop" /\ walk_report' = <<>>
          ELSE walk_pc' = "done" /\ walk_report' = <<Line(e.lits[1], 0)>>

walk_frame == <<os_vars, pc, run, cmds, result, report, mount_locals, embed_locals,
                helper_vars, concurrent_vars>>

\* search_embedded_files is invoked
SearchEmbeddedFiles(kind, files) ==
    /\ StartWalk("search_embedded_files", kind, files)
    /\ UNCHANGED walk_frame

\* one pass of its loop body: if _is_embedded_file(file_path): echo; the
\* call stands in no try block
Search_Visit(procs) ==
    /\ walk.cmd = "search_embedded_files"
    /\ walk_pc = "loop"
    /\ todo # <<>>
    /\ probed' = probed \cup {Position}
    /\ todo' = Tail(todo)
    /\ LET r == is_embedded_file(Head(todo), procs)
       IN IF r.type # "return"
          THEN walk_pc' = "aborted" /\ UNCHANGED <<matches, walk_report>>
          ELSE /\ walk_pc' = walk_pc
               /\ IF r.value = "True"
                  THEN /\ matches' = Append(matches, Position)
                       /\ walk_report' = Append(walk_report, Line("- ", Position))
                  ELSE UNCHANGED <<matches, walk_report>>
    /\ UNCHANGED <<walk, walk_frame>>

\* os.walk is exhausted
Search_End ==
    /\ walk.cmd = "search_embedded_files"
    /\ walk_pc = "loop"
    /\ todo = <<>>
    /\ walk_pc' = "done"
    /\ UNCHANGED <<walk, todo, probed, matches, walk_report, walk_frame>>

\* the names find_files_by_permissions holds a value for when it is entered:
\* its parameters
permission_params ==
    {"ctx", "dir_path", "owner", "group", "other", "all", "depth", "include_owner",
     "include_special"}

\* reading a local name of a function: a name the function assigns to
\* somewhere is local, and reading it before any assignment raises
read_local(bound, name) ==
    IF name \in bound THEN Exc("ok", <<>>, <<>>)
    ELSE Exc("UnboundLocalError",
             <<"cannot access local variable '",
               "' where it is not associated with a value">>, <<name>>)

\* find_files_by_permissions is invoked: its validation reads file_path,
\* which the function assigns one line below and has no parameter for;
\* on an exception the error is echoed and the process exits
FindFilesByPermissions(kind, files) ==
    /\ walk_pc = "idle"
    /\ kind # "dir" => files = <<>>
    /\ walk' = [cmd |-> "find_files_by_permissions", files |-> files, between |-> FALSE]
    /\ probed' = {}
    /\ matches' = <<>>
    /\ todo' = files
    /\ LET read == read_local(permission_params, "file_path")
           e == IF read.type # "ok" THEN read ELSE check_path_type(kind, TRUE)
       IN IF e.type = "ok"
          THEN walk_pc' = "loop" /\ walk_report' = <<>>
          ELSE walk_pc' = "exited" /\ walk_report' = <<Line(e.lits[1], 0)>>
    /\ UNCHANGED walk_frame

\* find_files_by_date is invoked
FindFilesByDate(kind, files) ==
    /\ StartWalk("find_files_by_date", kind, files)
    /\ UNCHANGED walk_frame

\* one pass of the loop body of _find_files_by_date, all of it in a try
\* block: exiftool is run, then its report is decoded and compared, which
\* ends in a match, a skip or an error
Date_Visit(procs, verdict) ==
    /\ walk.cmd = "find_files_by_date"
    /\ walk_pc = "loop"
    /\ todo # <<>>
    /\ probed' = probed \cup {Position}
    /\ todo' = Tail(todo)
    /\ LET r == run_command(<<"exiftool">>, procs).outcome
       IN IF r.type # "return" \/ verdict = "error"
          THEN /\ walk_report' = Append(walk_report, Line("Warning: Skipping file ", Position))
               /\ UNCHANGED matches
          ELSE IF verdict = "match"
          THEN matches' = Append(matches, Position) /\ UNCHANGED walk_report
          ELSE UNCHANGED <<matches, walk_report>>
    /\ UNCHANGED <<walk, walk_pc, walk_frame>>

\* the matches are echoed
Date_End ==
    /\ walk.cmd = "find_files_by_date"
    /\ walk_pc = "loop"
    /\ todo = <<>>
    /\ walk_pc' = "done"
    /\ walk_report' = Append(walk_report,
                             IF matches # <<>> THEN Line("Found matching files:", 0)
                             ELSE Line("No matching files found.", 0))
    /\ UNCHANGED <<walk, todo, probed, matches, walk_frame>>

\* what find_files_by_size is asked: --less-than, --more-than, --between,
\* each a size text or <<>> when the option is not given
Query(less_than, more_than, between) ==
    [less_than |-> less_than, more_than |-> more_than, between |-> between]

SizeQueries ==
    { Query(<<"1", "k", "b">>, <<>>, <<>>),
      Query(<<>>, <<"1", "k", "b">>, <<>>),
      Query(<<>>, <<>>, << <<"1", "k", "b">>, <<"2", "k", "b">> >>),
      Query(<<>>, <<>>, << <<"2", "k", "b">>, <<"1", "k", "b">> >>),
      Query(<<"5", "x", "x">>, <<>>, <<>>),
      Query(<<"0", "b">>, <<>>, <<>>),
      Query(<<>>, <<>>, <<>>) }

\* parse_size_from_string(option) if option else None; None and 0 are falsy
parsed_option(text) ==
    IF text = <<>> THEN Returned(PyInt(FALSE, <<>>)) ELSE parse_size_from_string(text)

truthy(parsed) == parsed.type = "return" /\ parsed.value.mag # <<>>

\* min_size > max_size for two parsed sizes that are not negative
size_greater(x, y) ==
    \/ Len(x.mag) > Len(y.mag)
    \/ /\ Len(x.mag) = Len(y.mag)
       /\ \E i \in 1..Len(x.mag) :
             /\ x.mag[i] > y.mag[i]
             /\ \A k \in (i + 1)..Len(x.mag) : x.mag[k] = y.mag[k]

\* the part of find_files_by_size before any file is looked at: "loop" when
\* find has listed the files, else the one line echoed before the end
size_search_entry(kind, q, procs) ==
    LET e == check_path_type(kind, FALSE)
        lt == parsed_option(q.less_than)
        mt == parsed_option(q.more_than)
        lo == IF q.between = <<>> THEN lt ELSE parsed_option(q.between[1])
        hi == IF q.between = <<>> THEN lt ELSE parsed_option(q.between[2])
        found == run_command(<<"find">>, procs).outcome
    IN IF e.type # "ok" THEN e.lits[1]
       ELSE IF \E p \in {lt, mt, lo, hi} : p.type # "return" THEN "Error: "
       ELSE IF ~truthy(lt) /\ ~truthy(mt) /\ q.between = <<>>
       THEN "Error: Please provide one of --less-than, --more-than, or --between."
       ELSE IF ~truthy(lt) /\ ~truthy(mt) /\ size_greater(lo.value, hi.value)
       THEN "Error: "
       ELSE IF found.type # "return" THEN "Error: "
       ELSE "loop"

\* find_files_by_size -t f is invoked
FindFilesBySize(kind, q, files, procs) ==
    /\ walk_pc = "idle"
    /\ LET entry == size_search_entry(kind, q, procs)
       IN /\ entry # "loop" => files = <<>>
          /\ walk' = [cmd |-> "find_files_by_size", files |-> files,
                      between |-> ~truthy(parsed_option(q.less_than))
                                  /\ ~truthy(parsed_option(q.more_than))]
          /\ todo' = files
          /\ IF entry = "loop"
             THEN walk_pc' = "loop" /\ walk_report' = <<>>
             ELSE walk_pc' = "done" /\ walk_report' = <<Line(entry, 0)>>
    /\ probed' = {}
    /\ matches' = <<>>
    /\ UNCHANGED walk_frame

\* one pass of the loop of _get_size_filtered_results: stat in a try block
Size_Visit(procs) ==
    /\ walk.cmd = "find_files_by_size"
    /\ walk_pc = "loop"
    /\ todo # <<>>
    /\ probed' = probed \cup {Position}
    /\ todo' = Tail(todo)
    /\ LET r == run_command(<<"stat">>, procs).outcome
       IN IF r.type # "return"
          THEN /\ walk_report' = Append(walk_report,
                                        Line("Warning: Could not process file ", Position))
               /\ UNCHANGED matches
          ELSE matches' = Append(matches, Position) /\ UNCHANGED walk_report
    /\ UNCHANGED <<walk, walk_pc, walk_frame>>

\* the results are echoed
display(results) ==
    IF results # <<>> THEN Line("Found matches:", 0) ELSE Line("No matches found.", 0)

\* the loop is over: --between goes on to filter the results by max_size,
\* the other branches echo them
Size_LoopEnd ==
    /\ walk.cmd = "find_files_by_size"
    /\ walk_pc = "loop"
    /\ todo = <<>>
    /\ IF walk.between
       THEN /\ walk_pc' = "filter"
            /\ todo' = matches
            /\ matches' = <<>>
            /\ UNCHANGED walk_report
       ELSE /\ walk_pc' = "done"
            /\ walk_report' = Append(walk_report, display(matches))
            /\ UNCHANGED <<todo, matches>>
    /\ UNCHANGED <<walk, probed, walk_frame>>

\* one element of the list comprehension under --between: stat is run again
\* for a result, in no try block but the outermost one of the command
Size_Filter(procs, within) ==
    /\ walk.cmd = "find_files_by_size"
    /\ walk_pc = "filter"
    /\ todo # <<>>
    /\ todo' = Tail(todo)
    /\ LET r == run_command(<<"stat">>, procs).outcome
       IN IF r.type # "return"
          THEN /\ walk_pc' = "done"
               /\ walk_report' = Append(walk_report, Line("Error: ", 0))
               /\ UNCHANGED matches
          ELSE /\ walk_pc' = walk_pc
               /\ matches' = IF within THEN Append(matches, Head(todo)) ELSE matches
               /\ UNCHANGED walk_report
    /\ UNCHANGED <<walk, probed, walk_frame>>

\* the filtered results are echoed
Size_FilterEnd ==
    /\ walk.cmd = "find_files_by_size"
    /\ walk_pc = "filter"
    /\ todo = <<>>
    /\ walk_pc' = "done"
    /\ walk_report' = Append(walk_report, display(matches))
    /\ UNCHANGED <<walk, todo, probed, matches, walk_frame>>

---------------------------------------------------------------------------
(* utils/config.py and the options of the command line (datascribe.py) *)

\* the processes that may invoke the program at the same time
ConfigProcs == {"p", "q"}

\* what CONFIG_FILE may hold: nothing (no file), no text, text that is no
\* JSON, bytes that are no text in the encoding of the process, an object
\* with the key workdir, an object without it, an array
NoFile == [form |-> "missing", workdir |-> <<>>]
Truncated == [form |-> "empty", workdir |-> <<>>]

\* the value of a Python dict {"workdir": path}
WorkdirDict(path) == [type |-> "dict", has_workdir |-> TRUE, workdir |-> path]

NoConfig == [type |-> "none", has_workdir |-> FALSE, workdir |-> <<>>]

\* json.dump(config, f, indent=4) of a dict with the key workdir
json_dump(config) == [form |-> "object", workdir |-> config.workdir]

\* faulty variant: text of no characters is read as an empty object
json_load_lenient(content) ==
    CASE content.form = "object" ->
            [type |-> "return", value |-> WorkdirDict(content.workdir)]
      [] content.form \in {"object_no_key", "empty"} ->
            [type |-> "return",
             value |-> [type |-> "dict", has_workdir |-> FALSE, workdir |-> <<>>]]
      [] content.form = "array" ->
            [type |-> "return",
             value |-> [type |-> "list", has_workdir |-> FALSE, workdir |-> <<>>]]
      [] content.form = "undecodable" ->
            [type |-> "UnicodeDecodeError", value |-> NoConfig]
      [] OTHER -> [type |-> "JSONDecodeError", value |-> NoConfig]

\* json.load(f)
json_load(content) ==
    CASE content.form = "object" ->
            [type |-> "return", value |-> WorkdirDict(content.workdir)]
      [] content.form = "object_no_key" ->
            [type |-> "return",
             value |-> [type |-> "dict", has_workdir |-> FALSE, workdir |-> <<>>]]
      [] content.form = "array" ->
            [type |-> "return",
             value |-> [type |-> "list", has_workdir |-> FALSE, workdir |-> <<>>]]
      [] content.form = "undecodable" ->
            [type |-> "UnicodeDecodeError", value |-> NoConfig]
      [] OTHER -> [type |-> "JSONDecodeError", value |-> NoConfig]

\* the directories that exist
ExistingDirs ==
    { <<"/">>, <<"/", "w">>, <<"/", "home">>, <<"/", "case">>,
      <<"/", "w", "/", "case">> }

\* faulty variant: every path passes
isdir_any(path) == TRUE

\* os.path.exists(path) and os.path.isdir(path)
isdir(path) == path \in ExistingDirs

IdleInvocation ==
    [pc |-> "idle", get_workdir |-> FALSE, set_workdir |-> <<>>, cwd |-> <<>>,
     seen |-> "none", config |-> NoConfig, saving |-> NoConfig, after |-> "none",
     workdir |-> <<>>, wrote |-> <<>>, out |-> "none"]

\* cli(ctx, get_workdir, set_workdir) is entered by process p started in
\* the directory cwd; its first statement calls get_working_directory
cli(p, get_workdir, set_workdir, cwd) ==
    /\ inv[p].pc = "idle"
    /\ inv' = [inv EXCEPT ![p] = [@ EXCEPT !.pc = "exists",
                                           !.get_workdir = get_workdir,
                                           !.set_workdir = set_workdir,
                                           !.cwd = cwd]]
    /\ UNCHANGED <<config_file, parked>>

\* recreate_default_config up to its call of save_config
recreate_default_config(i) ==
    [i EXCEPT !.pc = "save_open", !.saving = WorkdirDict(i.cwd), !.after = "loaded"]

\* load_config: os.path.exists(CONFIG_FILE)
Load_Exists(p) ==
    /\ inv[p].pc = "exists"
    /\ inv' = [inv EXCEPT ![p] =
                 IF config_file.form # "missing" THEN [@ EXCEPT !.pc = "read"]
                 ELSE recreate_default_config([@ EXCEPT !.seen = "missing"])]
    /\ UNCHANGED <<config_file, parked>>

\* load_config: the file is opened and json.load reads it; only a
\* JSONDecodeError is caught
Load_Read(p) ==
    /\ inv[p].pc = "read"
    /\ LET loaded == json_load(config_file)
           i == [inv[p] EXCEPT !.seen = config_file.form]
       IN inv' = [inv EXCEPT ![p] =
                    IF loaded.type = "return"
                    THEN [i EXCEPT !.pc = "loaded", !.config = loaded.value]
                    ELSE IF loaded.type = "JSONDecodeError"
                    THEN recreate_default_config(i)
                    ELSE [i EXCEPT !.pc = "failed", !.out = loaded.type]]
    /\ UNCHANGED <<config_file, parked>>

\* save_config: open(CONFIG_FILE, "w") creates the file or empties it
Save_Open(p) ==
    /\ inv[p].pc = "save_open"
    /\ config_file' = Truncated
    /\ inv' = [inv EXCEPT ![p] = [@ EXCEPT !.pc = "save_write",
                                           !.wrote = Append(@, Truncated)]]
    /\ UNCHANGED parked

\* save_config: json.dump, and the text reaches the file when it is closed;
\* then recreate_default_config returns the default, or cli echoes the set
Save_Write(p) ==
    /\ inv[p].pc = "save_write"
    /\ config_file' = json_dump(inv[p].saving)
    /\ inv' = [inv EXCEPT ![p] =
                 [@ EXCEPT !.pc = inv[p].after,
                           !.wrote = Append(@, json_dump(inv[p].saving)),
                           !.config = IF inv[p].after = "loaded" THEN inv[p].saving ELSE @,
                           !.out = IF inv[p].after = "done" THEN "set" ELSE @]]
    /\ UNCHANGED parked

\* get_working_directory: config.get("workdir", os.getcwd()); then the
\* options of cli
Cli_Options(p) ==
    /\ inv[p].pc = "loaded"
    /\ LET i == inv[p]
           workdir == IF i.config.has_workdir THEN i.config.workdir ELSE i.cwd
           resolved_path == resolve_path(workdir, i.set_workdir, i.cwd)
       IN inv' = [inv EXCEPT ![p] =
                    IF i.config.type # "dict"
                    THEN [i EXCEPT !.pc = "failed", !.out = "AttributeError"]
                    ELSE IF i.get_workdir
                    THEN [i EXCEPT !.pc = "done", !.workdir = workdir, !.out = "current"]
                    ELSE IF i.set_workdir # <<>>
                    THEN IF isdir(resolved_path)
                         THEN [i EXCEPT !.pc = "save_open", !.workdir = workdir,
                                        !.saving = WorkdirDict(resolved_path),
                                        !.after = "done"]
                         ELSE [i EXCEPT !.pc = "done", !.workdir = workdir,
                                        !.out = "invalid"]
                    ELSE [i EXCEPT !.pc = "done", !.workdir = workdir, !.out = "help"]]
    /\ UNCHANGED <<config_file, parked>>

config_frame == <<os_vars, pc, run, cmds, result, report, mount_locals, embed_locals,
                  helper_vars, walk_vars>>

\* the directories a process is started in, the --set-workdir values given
\* (no text when the option is absent) and the files found at the start
StartDirs == { <<"/", "w">>, <<"/", "home">> }
SetArgs == { <<>>, <<"case">>, <<"/", "case">>, <<"nodir">>, <<"..">> }
InitialFiles ==
    { NoFile, Truncated, [form |-> "garbage", workdir |-> <<>>],
      [form |-> "object_no_key", workdir |-> <<>>],
      [form |-> "array", workdir |-> <<>>],
      [form |-> "undecodable", workdir |-> <<>>],
      json_dump(WorkdirDict(<<"/", "w">>)), json_dump(WorkdirDict(<<"/", "case">>)) }

---------------------------------------------------------------------------
(* Specifications *)

PathKinds == {"absent", "file", "dir"}

InitRun ==
    /\ mnt_dir \in {"absent", "file", "empty", "nonempty"}
    /\ mounted = <<>>
    /\ loops = {}
    /\ pc = "idle"
    /\ run = "none"
    /\ cmds = <<>>
    /\ result = "none"
    /\ report = NoMsg
    /\ listing = "none"
    /\ loop_device = <<>>
    /\ partitions = <<>>
    /\ choice = <<>>
    /\ file = [readable |-> TRUE, content |-> <<>>]
    /\ binwalk_result = <<>>
    /\ embedded_files = <<>>
    /\ walk = [cmd |-> "none", files |-> <<>>, between |-> FALSE]
    /\ walk_pc = "idle"
    /\ todo = <<>>
    /\ probed = {}
    /\ matches = <<>>
    /\ walk_report = <<>>
    /\ inv = [p \in ConfigProcs |-> IdleInvocation]
    /\ parked = Running

Init ==
    /\ InitRun
    /\ config_file = NoFile
    /\ call = NoCall
    /\ ret = Pending

NextMount ==
    \/ \E img \in PathKinds : MountDisk(img)
    \/ \E ok \in BOOLEAN, err \in StderrTexts : Mount_EnsureDir(ok, err)
    \/ Mount_CheckEmpty
    \/ \E ok \in BOOLEAN, err \in StderrTexts : Mount_SetupLoop(ok, err)
    \/ \E ok \in BOOLEAN, out \in PartedOutputs, err \in StderrTexts :
          Mount_GetPartitions(ok, out, err)
    \/ \E n \in Choices : Mount_Prompt(n)
    \/ Mount_PromptAbort
    \/ \E ok \in BOOLEAN, err \in StderrTexts, e \in BOOLEAN : Mount_Partition(ok, err, e)
    \/ \E ok \in BOOLEAN, err \in StderrTexts, e \in BOOLEAN : Mount_Fallback(ok, err, e)
    \/ UnmountDisk
    \/ \E ok \in BOOLEAN, err \in StderrTexts : Unmount_Umount(ok, err)
    \/ \E ok \in BOOLEAN, err \in StderrTexts : Unmount_Rm(ok, err)

SpecMount == Init /\ [][NextMount]_vars

\* two processes, each running mount_disk once
NextRace ==
    \/ \E img \in PathKinds : pc = "idle" /\ MountDisk(img)
    \/ \E ok \in BOOLEAN : Mount_EnsureDir(ok, <<"e", "\n">>)
    \/ Mount_CheckEmpty
    \/ \E ok \in BOOLEAN : Mount_SetupLoop(ok, <<"e", "\n">>)
    \/ \E ok \in BOOLEAN, out \in PartedOutputs :
          Mount_GetPartitions(ok, out, <<"e", "\n">>)
    \/ \E n \in Choices : Mount_Prompt(n)
    \/ Mount_PromptAbort
    \/ \E ok \in BOOLEAN, fs_empty \in BOOLEAN :
          Mount_Partition(ok, <<"e", "\n">>, fs_empty)
    \/ \E ok \in BOOLEAN, fs_empty \in BOOLEAN :
          Mount_Fallback(ok, <<"e", "\n">>, fs_empty)
    \/ Yield

SpecRace == Init /\ [][NextRace]_vars

NextEmbed ==
    \/ \E f \in Files : IsEmbeddedFile(f)
    \/ Embed_ArchiveCheck
    \/ \E ok \in BOOLEAN, out \in BinwalkOutputs, err \in StderrTexts :
          Embed_RunBinwalk(ok, out, err)
    \/ Embed_BinwalkMissing
    \/ Embed_Count

InitEmbed == Init /\ mnt_dir = "absent"

SpecEmbed == InitEmbed /\ [][NextEmbed]_vars

NextHelper ==
    \/ Call_run_command
    \/ Call_run_disk_tool
    \/ Call_resolve_path
    \/ Call_check_path_type
    \/ Call_parse_size_from_string
    \/ Call_parse_size_to_string
    \/ Call_get_partition_info
    \/ Call_parse_formatted

InitHelper ==
    /\ InitRun
    /\ config_file = NoFile
    /\ mnt_dir = "absent"
    /\ ret = Pending
    /\ \/ call \in RunnerCalls
       \/ call \in ResolveCalls
       \/ call \in CheckCalls
       \/ call \in ParseCalls
       \/ call \in BadParseCalls
       \/ call \in SignedParseCalls
       \/ call \in PartitionCalls
       \/ call \in FormatCalls

SpecHelper == InitHelper /\ [][NextHelper]_vars

NextWalk ==
    \/ \E kind \in PathKinds, files \in WalkLists : SearchEmbeddedFiles(kind, files)
    \/ \E procs \in WalkProcs : Search_Visit(procs)
    \/ Search_End
    \/ \E kind \in PathKinds, files \in WalkLists : FindFilesByDate(kind, files)
    \/ \E procs \in WalkProcs, verdict \in {"match", "skip", "error"} :
          Date_Visit(procs, verdict)
    \/ Date_End
    \/ \E kind \in PathKinds, q \in SizeQueries, files \in WalkLists,
          procs \in WalkProcs : FindFilesBySize(kind, q, files, procs)
    \/ \E procs \in WalkProcs : Size_Visit(procs)
    \/ Size_LoopEnd
    \/ \E procs \in WalkProcs, within \in BOOLEAN : Size_Filter(procs, within)
    \/ Size_FilterEnd
    \/ \E kind \in PathKinds, files \in WalkLists : FindFilesByPermissions(kind, files)

InitWalk == Init /\ mnt_dir = "absent"

SpecWalk == InitWalk /\ [][NextWalk]_vars

NextConfig ==
    \/ \E p \in ConfigProcs, get_workdir \in BOOLEAN, set_workdir \in SetArgs,
           cwd \in StartDirs :
          cli(p, get_workdir, set_workdir, cwd) /\ UNCHANGED config_frame
    \/ \E p \in ConfigProcs : Load_Exists(p) /\ UNCHANGED config_frame
    \/ \E p \in ConfigProcs : Load_Read(p) /\ UNCHANGED config_frame
    \/ \E p \in ConfigProcs : Save_Open(p) /\ UNCHANGED config_frame
    \/ \E p \in ConfigProcs : Save_Write(p) /\ UNCHANGED config_frame
    \/ \E p \in ConfigProcs : Cli_Options(p) /\ UNCHANGED config_frame

InitConfig ==
    /\ InitRun
    /\ mnt_dir = "absent"
    /\ call = NoCall
    /\ ret = Pending
    /\ config_file \in InitialFiles

SpecConfig == InitConfig /\ [][NextConfig]_vars

---------------------------------------------------------------------------
(* Properties of the mount orchestrator *)

CmdIdx == 1..Len(cmds)
Issued(tool) == \E i \in CmdIdx : cmds[i].tool = tool
Failed(tool) == \E i \in CmdIdx : cmds[i].tool = tool /\ ~cmds[i].ok
Succeeded(tool) == \E i \in CmdIdx : cmds[i].tool = tool /\ cmds[i].ok

\* C1: a mount_disk run whose target directory exists and is non-empty fails
\* at the emptiness check: it never gets past that check, it issues neither
\* losetup nor mount, and it ends in failure.
C1_NonEmptyTargetFails ==
    (run = "mount_disk" /\ View = "nonempty" /\ ~Succeeded("mount")) =>
        /\ pc \in {"ensure_dir", "check_empty", "done"}
        /\ pc = "done" => result \in {"fail", "exit"}
        /\ ~Issued("losetup")
        /\ ~Issued("mount")
        /\ loop_device = <<>>

C1_Witness ==
    /\ run = "mount_disk" /\ pc = "done" /\ result = "fail"
    /\ listing = "nonempty" /\ View = "nonempty"
    /\ report.lits = <<"Error: ", "An unexpected error occurred: ", "Dir is not empty: ">>

\* C2: every mount command issued, for a partition or for the whole device,
\* carries the options ro,noexec, and so does every mount in place.
C2_MountsReadOnlyNoExec ==
    /\ \A i \in CmdIdx : cmds[i].tool = "mount" => cmds[i].opts = "ro,noexec"
    /\ \A j \in 1..Len(mounted) : mounted[j].opts = "ro,noexec"

C2_Witness ==
    /\ run = "mount_disk" /\ pc = "done" /\ result = "ok"
    /\ \E i, j \in CmdIdx :
          /\ cmds[i].tool = "mount" /\ cmds[i].target # loop_device
          /\ cmds[j].tool = "mount" /\ cmds[j].target = loop_device /\ cmds[j].ok

\* C3 as stated: once umount has succeeded the directory is removed, so a
\* finished unmount run whose umount succeeded leaves no mount point.
C3_Original ==
    (run = "unmount_disk" /\ pc = "done" /\ Succeeded("umount")) =>
        PathKind(View) = "absent"

\* C3 amended: rm is issued only after umount succeeded; if umount fails the
\* run ends in failure with no rm and the directory still there; if umount
\* succeeds rm is attempted, the directory is gone when rm succeeds, and a
\* run that ends successfully leaves no mount point.
C3_RemovalOnlyAfterUmount ==
    run = "unmount_disk" =>
        /\ \A i \in CmdIdx : cmds[i].tool = "rm" =>
              \E j \in 1..(i - 1) : cmds[j].tool = "umount" /\ cmds[j].ok
        /\ Failed("umount") =>
              /\ pc = "done" /\ result = "fail"
              /\ ~Issued("rm")
              /\ PathKind(View) = "dir"
        /\ (Succeeded("umount") /\ pc = "done") => Issued("rm")
        /\ Succeeded("rm") => PathKind(View) = "absent"
        /\ (pc = "done" /\ result = "ok") =>
              Succeeded("umount") /\ Succeeded("rm") /\ PathKind(View) = "absent"

C3_Witness ==
    /\ run = "unmount_disk" /\ pc = "done" /\ result = "ok"
    /\ Succeeded("umount") /\ Succeeded("rm") /\ mnt_dir = "absent"

\* the report lines of a parted output that begin, blanks apart, with a digit
NumericRows(out) ==
    {i \in 1..Len(SplitLines(out)) :
        LET l == SplitLines(out)[i]
        IN \E k \in 1..Len(l) :
              /\ l[k] \in Digits
              /\ \A m \in 1..(k - 1) : l[m] \in Whitespace}

PartedCmd == cmds[CHOOSE i \in CmdIdx : cmds[i].tool = "parted"]

WholeDeviceMountIssued ==
    \E i \in CmdIdx : cmds[i].tool = "mount" /\ cmds[i].target = loop_device

\* C4 as stated: after the loop device is attached, a failed enumeration and
\* an empty enumeration both lead to a whole-device mount command.
C4_Original ==
    (run = "mount_disk" /\ pc = "done" /\ Succeeded("losetup") /\ Issued("parted")
       /\ (~PartedCmd.ok \/ NumericRows(PartedCmd.out) = {})) =>
        WholeDeviceMountIssued

\* C4 amended: an enumeration that yields no partition leads to a mount of
\* the whole loop device and of nothing else; an enumeration that fails ends
\* the run in failure, reporting the reader's standard error, with no mount
\* command at all.
C4_FallbackOnEmptyOnly ==
    (run = "mount_disk" /\ pc = "done" /\ Issued("parted")) =>
        /\ (PartedCmd.ok /\ NumericRows(PartedCmd.out) = {}) =>
              /\ partitions = <<>>
              /\ WholeDeviceMountIssued
              /\ \A i \in CmdIdx : cmds[i].tool = "mount" => cmds[i].target = loop_device
        /\ ~PartedCmd.ok =>
              /\ ~Issued("mount")
              /\ result = "fail"
              /\ report = Msg(<<"Error: ", "An unexpected error occurred: ",
                                "Error retrieving partition info: ">>,
                              Strip(PartedCmd.err))

C4_Witness ==
    /\ run = "mount_disk" /\ pc = "done" /\ result = "ok"
    /\ Issued("parted") /\ PartedCmd.ok /\ PartedCmd.out # <<>>
    /\ partitions = <<>>
    /\ WholeDeviceMountIssued

\* C5: with n partitions enumerated, a chosen index outside 1..n fails the
\* run and no mount command is issued.
C5_OutOfRangeChoiceMountsNothing ==
    (run = "mount_disk" /\ pc = "done" /\ choice # <<>>
       /\ ~(choice[1] \in 1..Len(partitions))) =>
        /\ result = "fail"
        /\ ~Issued("mount")

\* C6: a failing external tool ends the run: the failed command is the last
\* one issued, no mount follows a failed mount, and the run ends in failure.
C6_FailureAbortsWithoutRetry ==
    (run = "mount_disk" /\ pc = "done") =>
        \A i \in CmdIdx : ~cmds[i].ok => (i = Len(cmds) /\ result = "fail")

\* C7: when a mount or umount command exits non-zero, the run ends with an
\* error echoed at the command boundary, and the echoed line carries the
\* standard error of that command.
C7_ReportCarriesToolStderr ==
    (run \in {"mount_disk", "unmount_disk"} /\ pc = "done") =>
        \A i \in CmdIdx :
            (cmds[i].tool \in {"mount", "umount"} /\ ~cmds[i].ok /\ i = Len(cmds)) =>
                /\ result = "fail"
                /\ Head(report.lits) = "Error: "
                /\ report.text = Strip(cmds[i].err)

---------------------------------------------------------------------------
(* Properties of the embedded-file heuristic *)

\* the magic prefixes as the contract lists them
MagicPrefixes ==
    { <<80, 75>>, <<82, 97, 114, 33>>, <<31, 139>>, <<66, 90, 104>>,
      <<55, 122, 188, 175, 39, 28>>, <<117, 115, 116, 97, 114>>,
      <<80, 79, 83, 73, 88>> }

HasMagicPrefix(content) ==
    \E m \in MagicPrefixes :
        /\ Len(content) >= Len(m)
        /\ \A k \in 1..Len(m) : content[k] = m[k]

PastArchiveCheck == run = "is_embedded_file" /\ pc # "archive_check"

\* C8 as stated: every file whose first bytes are a magic prefix is reported
\* embedded, and the scanner is not run for it.
C8_Original ==
    (PastArchiveCheck /\ HasMagicPrefix(file.content)) =>
        /\ pc = "done" /\ result = "True"
        /\ ~Issued("binwalk")

\* C8 amended: every file whose header can be read and begins with a magic
\* prefix is reported embedded, and the scanner is not run for it.
C8_ArchiveSignatureShortCircuits ==
    (PastArchiveCheck /\ file.readable /\ HasMagicPrefix(file.content)) =>
        /\ pc = "done" /\ result = "True"
        /\ ~Issued("binwalk")

C8_Witness ==
    /\ run = "is_embedded_file" /\ pc = "done" /\ result = "True"
    /\ file.readable
    /\ Len(file.content) > 8
    /\ HasMagicPrefix(file.content)
    /\ cmds = <<>>

\* a line is blank when it holds whitespace only
NonBlank(l) == \E k \in 1..Len(l) : ~(l[k] \in Whitespace)

\* the first whitespace-delimited token of the line consists of digits only
NumericFirstToken(l) ==
    \E a \in 1..Len(l) :
        /\ \A m \in 1..(a - 1) : l[m] \in Whitespace
        /\ l[a] \in Digits
        /\ \A k \in a..Len(l) :
              (\A m \in a..k : ~(l[m] \in Whitespace)) => l[k] \in Digits

\* the line contains "tif" in some letter case
MentionsTif(l) ==
    \E i \in 1..(Len(l) - 2) :
        l[i] \in {"t", "T"} /\ l[i + 1] \in {"i", "I"} /\ l[i + 2] \in {"f", "F"}

Qualifies(l) == NonBlank(l) /\ NumericFirstToken(l) /\ ~MentionsTif(l)

BinwalkCmd == cmds[CHOOSE i \in CmdIdx : cmds[i].tool = "binwalk"]

\* the number of qualifying lines in the report the scanner printed
QualifyingCount(out) ==
    Cardinality({i \in 1..Len(SplitLines(out)) : Qualifies(SplitLines(out)[i])})

\* C9: for a file without archive signature whose scan succeeded, the answer
\* is True exactly when more than 2 report lines qualify.
C9_ThresholdStrictlyAboveTwo ==
    (run = "is_embedded_file" /\ pc = "done" /\ ~HasMagicPrefix(file.content)
       /\ Succeeded("binwalk")) =>
        /\ result \in {"True", "False"}
        /\ result = "True" <=> QualifyingCount(BinwalkCmd.out) > 2

C9_Witness ==
    /\ run = "is_embedded_file" /\ pc = "done" /\ result = "False"
    /\ ~HasMagicPrefix(file.content)
    /\ Succeeded("binwalk")
    /\ QualifyingCount(BinwalkCmd.out) = 2
    /\ Len(SplitLines(BinwalkCmd.out)) = 4

\* the lines of s that qualify, in order
RECURSIVE QualifyingLines(_)
QualifyingLines(ls) ==
    IF ls = <<>> THEN <<>>
    ELSE (IF Qualifies(Head(ls)) THEN <<Head(ls)>> ELSE <<>>)
         \o QualifyingLines(Tail(ls))

\* C10: the lines counted are exactly the report lines that are non-blank,
\* have an all-digit first token and do not contain "tif" in any letter case.
C10_CountedLinesAreQualifying ==
    (run = "is_embedded_file" /\ pc = "done" /\ Succeeded("binwalk")) =>
        embedded_files = QualifyingLines(SplitLines(binwalk_result))

C10_Witness ==
    /\ run = "is_embedded_file" /\ pc = "done" /\ Succeeded("binwalk")
    /\ \E i \in 1..Len(SplitLines(binwalk_result)) :
          LET l == SplitLines(binwalk_result)[i]
          IN NumericFirstToken(l) /\ MentionsTif(l)
    /\ \E i \in 1..Len(SplitLines(binwalk_result)) :
          LET l == SplitLines(binwalk_result)[i]
          IN l[1] \in Digits /\ ~NumericFirstToken(l)
    /\ Len(embedded_files) = 2


---------------------------------------------------------------------------
(* Properties of the command runner as the heuristic uses it *)

\* C11: when the scanner does not run to success for a file without an
\* archive signature (non-zero exit, or no binary), the finished
\* _is_embedded_file has answered False and echoed a report of the failure;
\* it has not raised.
C11_ScannerFailureAnswersFalse ==
    (run = "is_embedded_file" /\ pc = "done" /\ ~is_archive_file(file)
        /\ ~Succeeded("binwalk")) =>
        /\ result = "False"
        /\ report.lits = <<"Error analyzing file: ">>

---------------------------------------------------------------------------
(* Properties of the command runner *)

\* v is t without its leading and trailing whitespace
TrimOf(t, v) ==
    \E i \in 0..Len(t) : \E j \in i..Len(t) :
        /\ v = SubSeq(t, i + 1, j)
        /\ \A k \in 1..i : t[k] \in Whitespace
        /\ \A k \in (j + 1)..Len(t) : t[k] \in Whitespace
        /\ v # <<>> => (v[1] \notin Whitespace /\ v[Len(v)] \notin Whitespace)

FirstProc == call.args[2][1]

\* the helper named by call has returned or raised
Ended(fn) == call.fn = fn /\ ret.outcome.type # "none"

\* C13: a run_command call whose program exists starts one process; on exit
\* status 0 it returns the captured standard output without leading and
\* trailing whitespace; on any other status it returns nothing and raises a
\* failure whose text is the captured standard error, character for character.
C13_RunCommandOutcomes ==
    (Ended("run_command") /\ FirstProc.found) =>
        /\ ret.spawned = 1
        /\ FirstProc.returncode = 0 =>
              /\ ret.outcome.type = "return"
              /\ TrimOf(FirstProc.stdout, ret.outcome.value)
        /\ FirstProc.returncode # 0 =>
              /\ ret.outcome.type = "Exception"
              /\ ret.outcome.lits = <<"Command failed: ">>
              /\ ret.outcome.text = FirstProc.stderr

C13_Witness ==
    /\ call.fn = "run_command"
    /\ FirstProc.found
    /\ FirstProc.returncode = 2
    /\ FirstProc.stderr = <<"E", "1", "\n">>
    /\ ret.outcome.text = <<"E", "1", "\n">>
    /\ ret.spawned = 1

\* C14: when the program of a request is not on the search path, the call
\* returns nothing and raises a failure of the not-found kind, distinct from
\* the exit failure, that carries the program's name; this holds for a direct
\* run_command call and for a call through _run_disk_tool alike.
C14_MissingProgramIsNamed ==
    (/\ Ended("run_command") \/ Ended("run_disk_tool")
     /\ ~FirstProc.found
     /\ call.fn = "run_disk_tool" => call.args[1] \in DiskTools) =>
        /\ ret.outcome.type # "return"
        /\ ret.outcome.text = call.args[1]
        /\ ret.outcome.lits # <<"Command failed: ">>
        /\ ret.spawned = 0
        /\ call.fn = "run_command" => ret.outcome.type = "FileNotFoundError"
        /\ call.fn = "run_disk_tool" =>
              ret.outcome.lits = <<"Tool '", "' is not installed or not in the PATH.">>

C14_Witness ==
    /\ call.fn = "run_command"
    /\ call.args[1] = <<"s", "t", "a", "t">>
    /\ ~FirstProc.found
    /\ ret.outcome.type = "FileNotFoundError"
    /\ ret.outcome.text = <<"s", "t", "a", "t">>

---------------------------------------------------------------------------
(* Properties of the path resolver *)

\* C15: resolve_path returns an absolute user path as the very same string,
\* whatever the base directory.
C15_AbsolutePathUnchanged ==
    (Ended("resolve_path") /\ isabs(call.args[2])) =>
        ret.outcome.value = call.args[2]

\* the names of a path, in order
PathNames(p) == SelectSeq(p, LAMBDA t : t # "/")

\* the directory stack reached from the root by following names
RECURSIVE Follow(_, _)
Follow(stack, names) ==
    IF names = <<>> THEN stack
    ELSE IF Head(names) = "." THEN Follow(stack, Tail(names))
    ELSE IF Head(names) = ".."
    THEN Follow(IF stack = <<>> THEN stack ELSE SubSeq(stack, 1, Len(stack) - 1),
                Tail(names))
    ELSE Follow(Append(stack, Head(names)), Tail(names))

\* the spelling of a directory stack
RECURSIVE Spell(_)
Spell(stack) ==
    IF stack = <<>> THEN <<>>
    ELSE <<"/", Head(stack)>> \o Spell(Tail(stack))

\* a normalized absolute path: rooted, no "." or "..", no doubled or
\* trailing separator
IsNormalAbsolute(p) ==
    /\ isabs(p)
    /\ \A i \in 1..Len(p) : p[i] \notin {".", ".."}
    /\ \A i \in 1..(Len(p) - 1) : ~(p[i] = "/" /\ p[i + 1] = "/")
    /\ Len(p) > 1 => p[Len(p)] # "/"

\* C16: the result of resolve_path is an absolute path in every case; for a
\* relative user path it is the normalized join of base directory and user
\* path: the normalized spelling of the place reached by following the base
\* directory (from the current directory if it is relative) and then the
\* user path; /home/user/case with images/photo.jpg gives
\* /home/user/case/images/photo.jpg.
C16_ResultAbsoluteNormalizedJoin ==
    Ended("resolve_path") =>
        LET base == call.args[1]
            path == call.args[2]
            res == ret.outcome.value
            start == IF isabs(base) THEN <<>> ELSE PathNames(Cwd)
            place == Follow(start, PathNames(base) \o PathNames(path))
        IN /\ ret.outcome.type = "return"
           /\ isabs(res)
           /\ ~isabs(path) =>
                 /\ IsNormalAbsolute(res)
                 /\ res = IF place = <<>> THEN <<"/">> ELSE Spell(place)
           /\ (base = <<"/", "home", "/", "user", "/", "case">>
                 /\ path = <<"images", "/", "photo.jpg">>) =>
                 res = <<"/", "home", "/", "user", "/", "case", "/",
                         "images", "/", "photo.jpg">>

C16_Witness ==
    /\ Ended("resolve_path")
    /\ call.args[1] = <<"/", "home", "/", "user", "/", "case">>
    /\ call.args[2] = <<"..", "/", "a">>
    /\ ret.outcome.value = <<"/", "home", "/", "user", "/", "a">>

\* C17: check_path_type fails when nothing exists at the resolved path; when
\* a file is required it succeeds exactly if something exists there that is
\* not a directory; when a directory is required it fails on a regular file;
\* and the filesystem is as it was before the call.
C17_CheckPathType ==
    Ended("check_path_type") =>
        LET kind == call.args[1]
            has_to_be_file == call.args[2]
            ok == ret.outcome.type = "return"
        IN /\ kind = "absent" => ret.outcome.type = "BadParameter"
           /\ has_to_be_file => (ok <=> kind \notin {"absent", "dir"})
           /\ (~has_to_be_file /\ kind = "file") => ret.outcome.type = "BadParameter"
           /\ ok \/ ret.outcome.type = "BadParameter"
           /\ mnt_dir = "absent" /\ mounted = <<>> /\ loops = {}

C17_Witness ==
    /\ Ended("check_path_type")
    /\ call.args = <<"absent", TRUE>>
    /\ ret.outcome.type = "BadParameter"
    /\ ret.outcome.lits = <<"Invalid path: ">>

---------------------------------------------------------------------------
(* Properties of the size parser and formatter *)

\* x <= y for numbers given by their base-1024 digits
RECURSIVE Leq(_, _)
Leq(x, y) ==
    IF Len(x) # Len(y) THEN Len(x) < Len(y)
    ELSE IF x = <<>> THEN TRUE
    ELSE IF x[Len(x)] # y[Len(y)] THEN x[Len(x)] < y[Len(y)]
    ELSE Leq(SubSeq(x, 1, Len(x) - 1), SubSeq(y, 1, Len(y) - 1))

\* x + y
RECURSIVE AddCarry(_, _, _)
AddCarry(x, y, carry) ==
    IF x = <<>> /\ y = <<>> THEN (IF carry = 0 THEN <<>> ELSE <<carry>>)
    ELSE LET a == IF x = <<>> THEN 0 ELSE Head(x)
             b == IF y = <<>> THEN 0 ELSE Head(y)
             v == a + b + carry
         IN <<v % 1024>>
            \o AddCarry(IF x = <<>> THEN x ELSE Tail(x),
                        IF y = <<>> THEN y ELSE Tail(y), v \div 1024)

Plus(x, y) == AddCarry(x, y, 0)

\* c * x by doubling
RECURSIVE Times(_, _)
Times(c, x) ==
    IF c = 0 THEN <<>>
    ELSE LET half == Times(c \div 2, x)
         IN IF c % 2 = 0 THEN Plus(half, half) ELSE Plus(x, Plus(half, half))

\* 1024^k
RECURSIVE Power1024(_)
Power1024(k) == IF k = 0 THEN <<1>> ELSE <<0>> \o Power1024(k - 1)

\* the power of 1024 a unit spelling stands for
PowerOfUnit(u) ==
    IF Len(u) = 1 THEN 0
    ELSE CASE u[1] \in {"k", "K"} -> 1
           [] u[1] \in {"m", "M"} -> 2
           [] u[1] \in {"g", "G"} -> 3
           [] u[1] \in {"t", "T"} -> 4

\* the number written by a size text, as mantissa over 10^digits
MantissaOf(n) == n.whole * Pow10(Len(n.frac)) + DigitsValue(n.frac)

\* C18: for a decimal number (separator "," or ".") followed by a unit of
\* B, KB, MB, GB, TB in any letter case, parse_size_from_string returns the
\* integer part of number * 1024^k, KB to TB being recognised before the
\* bare B; "1.5gb" gives 1610612736 and "24,5mb" gives 25690112.  It raises
\* when the text ends in no unit ("5xx") or its numeric part is no number.
C18_ParseSize ==
    Ended("parse_size_from_string") =>
        LET n == call.args[2]
            out == ret.outcome
        IN /\ (n.kind = "number" /\ n.unit \in UnitSpellings) =>
                 LET exact == Times(MantissaOf(n), Power1024(PowerOfUnit(n.unit)))
                     scale == Pow10(Len(n.frac))
                 IN /\ out.type = "return"
                    /\ ~out.value.neg
                    /\ Leq(Times(scale, out.value.mag), exact)
                    /\ ~Leq(Times(scale, Plus(out.value.mag, <<1>>)), exact)
           /\ (n.kind = "number" /\ n.unit \in NoUnits) => out.type = "ValueError"
           /\ n.kind = "text" => out.type = "ValueError"
           /\ call.args[1] = <<"1", ".", "5", "g", "b">> =>
                 (out.type = "return" /\ out.value.mag = FromInt(1610612736))
           /\ call.args[1] = <<"2", "4", ",", "5", "m", "b">> =>
                 (out.type = "return" /\ out.value.mag = FromInt(25690112))
           /\ call.args[1] = <<"5", "x", "x">> => out.type = "ValueError"

C18_Witness ==
    /\ Ended("parse_size_from_string")
    /\ call.args[1] = <<"2", "4", ",", "5", "M", "b">>
    /\ ret.outcome.type = "return"
    /\ ret.outcome.value.mag = FromInt(25690112)

\* the unit a formatted text ends in, counted from B = 0
UnitPrinted(t) ==
    CHOOSE k \in 0..4 : EndsWith(t, <<" ">> \o UnitNames[k + 1])

\* the digits before the unit, the point left out
TenthsPrinted(t) ==
    DigitsValue(SelectSeq(SubSeq(t, 1, Len(t) - Len(UnitNames[UnitPrinted(t) + 1]) - 1),
                          LAMBDA c : c # "."))

\* number text with exactly one digit after the point
OneDecimal(t) ==
    /\ Len(t) >= 3
    /\ t[Len(t)] \in Digits
    /\ t[Len(t) - 1] = "."
    /\ IsDigit(SubSeq(t, 1, Len(t) - 2))

C20_RoundTrip ==
    (Ended("parse_size_from_string") /\ call.args[2].kind = "formatted") =>
        LET b == call.args[2].bytes
            k == UnitPrinted(call.args[1])
            back == ret.outcome.value.mag
            slack == Plus(Power1024(k), <<20>>)
        IN /\ ret.outcome.type = "return"
           /\ ~ret.outcome.value.neg
           /\ Leq(Times(20, back), Plus(Times(20, b), slack))
           /\ Leq(Times(20, b), Plus(Times(20, back), slack))
           /\ Len(b) <= 1 => back = b

C20_Witness ==
    /\ Ended("parse_size_from_string")
    /\ call.args[2].kind = "formatted"
    /\ call.args[2].bytes = <<51, 1>>
    /\ call.args[1] = <<"1", ".", "0", " ", "K", "B">>
    /\ ret.outcome.value.mag = <<0, 1>>

---------------------------------------------------------------------------
(* Properties of the directory traversals *)

\* C12: when a traversal has ended, every file it was to visit has been
\* probed and none is left unreached, whichever files failed: a failure on
\* one file ends the processing of that file only.
C12_EveryFileProcessed ==
    walk_pc \in {"done", "aborted"} =>
        /\ walk_pc = "done"
        /\ probed = 1..Len(walk.files)
        /\ todo = <<>>


\* C21: every value parse_size_from_string returns is a byte count that is
\* not negative; no accepted text yields a size below zero.
C21_ParsedSizeNonNegative ==
    (Ended("parse_size_from_string") /\ ret.outcome.type = "return") =>
        ~ret.outcome.value.neg

---------------------------------------------------------------------------
(* Properties of the configuration file *)

\* the file an invocation leaves when it saves {"workdir": path}
Stored(path) == [form |-> "object", workdir |-> path]

\* C22: when CONFIG_FILE is missing or what it holds is malformed (no text,
\* no JSON, or no object with the key workdir), loading the configuration
\* does not fail: the invocation recreates the file with workdir = its
\* current directory and takes that directory as the working directory.
C22_MalformedConfigRecreated ==
    \A p \in ConfigProcs :
        LET i == inv[p]
        IN (i.seen \notin {"none", "object"} /\ i.pc \in {"done", "failed"}) =>
              /\ i.pc = "done"
              /\ Len(i.wrote) >= 2 /\ i.wrote[2] = Stored(i.cwd)
              /\ i.workdir = i.cwd

\* C23: an invocation that read a valid configuration touches CONFIG_FILE
\* only for a --set-workdir whose resolved path is an existing directory:
\* without --set-workdir, and with one that resolves to no existing
\* directory, it writes nothing; and what a successful set stores is the
\* absolute normalized path of that directory.
C23_RewrittenOnlyBySet ==
    \A p \in ConfigProcs :
        LET i == inv[p]
            resolved == resolve_path(i.config.workdir, i.set_workdir, i.cwd)
        IN i.seen = "object" =>
              /\ i.set_workdir = <<>> => i.wrote = <<>>
              /\ (i.set_workdir # <<>> /\ resolved \notin ExistingDirs) => i.wrote = <<>>
              /\ i.wrote # <<>> => (~i.get_workdir /\ i.wrote[1] = Truncated)
              /\ i.out = "set" =>
                    /\ i.wrote = <<Truncated, Stored(resolved)>>
                    /\ IsNormalAbsolute(resolved)
                    /\ resolved \in ExistingDirs

C23_Witness ==
    /\ inv["p"].seen = "object"
    /\ inv["p"].workdir = <<"/", "w">>
    /\ inv["p"].set_workdir = <<"case">>
    /\ inv["p"].out = "set"
    /\ config_file = Stored(<<"/", "w", "/", "case">>)
    /\ inv["q"].seen = "object"
    /\ inv["q"].set_workdir = <<"nodir">>
    /\ inv["q"].out = "invalid"
    /\ inv["q"].wrote = <<>>

\* C28: an invocation that reads CONFIG_FILE while it holds no text (as it
\* does between the truncation and the write of a set in another process)
\* does not fail, treats the file as malformed and rewrites the default: it
\* stores its own current directory, whatever another invocation has set.
C28_TruncatedReadRewritesDefault ==
    \A p \in ConfigProcs :
        LET i == inv[p]
        IN i.seen = "empty" =>
              /\ i.pc # "failed"
              /\ i.pc \in {"loaded", "done"} =>
                    /\ Len(i.wrote) >= 2 /\ i.wrote[2] = Stored(i.cwd)
                    /\ i.config = WorkdirDict(i.cwd)

\* p read a valid file and set /case; q read the file p had truncated; in
\* the end the file holds q's current directory and /case is lost
C28_Witness ==
    /\ inv["p"].seen = "object"
    /\ inv["p"].out = "set"
    /\ inv["p"].wrote = <<Truncated, Stored(<<"/", "case">>)>>
    /\ inv["q"].seen = "empty"
    /\ inv["q"].pc = "done"
    /\ inv["q"].cwd = <<"/", "home">>
    /\ config_file = Stored(<<"/", "home">>)

---------------------------------------------------------------------------
(* Properties of the partition enumeration *)

\* the positions of a line that hold no blank
NonBlankAt(line) == {i \in 1..Len(line) : line[i] \notin Whitespace}

FirstNonBlankAt(line) == CHOOSE i \in NonBlankAt(line) : \A j \in NonBlankAt(line) : i <= j

\* the first whitespace-delimited token of a line that is not blank
TokenOf(line) ==
    LET first == FirstNonBlankAt(line)
        last == CHOOSE j \in first..Len(line) :
                    /\ \A k \in first..j : k \in NonBlankAt(line)
                    /\ j = Len(line) \/ (j + 1) \notin NonBlankAt(line)
    IN SubSeq(line, first, last)

YieldsPartition(line) == NonBlankAt(line) # {} /\ line[FirstNonBlankAt(line)] \in Digits

\* C26: _get_partition_info returns, in report order, exactly one
\* descriptor for each report line whose first non-blank character is a
\* digit, formed as loop device + "p" + the first whitespace-delimited token
\* of the line; blank lines and lines not starting with a digit yield nothing.
C26_OneDescriptorPerNumberedLine ==
    (Ended("get_partition_info") /\ ret.outcome.type = "return") =>
        LET numbered == SelectSeq(call.args[3], YieldsPartition)
        IN ret.outcome.value =
              [k \in 1..Len(numbered) |-> call.args[1] \o <<"p">> \o TokenOf(numbered[k])]

C26_Witness ==
    /\ Ended("get_partition_info")
    /\ call.args[1] = DeviceName(1)
    /\ call.args[3] = << <<"N", "u", " ", "S", "t">>, <<"1", "x", " ", "a">>,
                         <<" ", " ">>, <<" ", "1", " ", "a">> >>
    /\ ret.outcome.value = << <<"l", "o", "o", "p", "1", "p", "1", "x">>,
                              <<"l", "o", "o", "p", "1", "p", "1">> >>

---------------------------------------------------------------------------
(* Properties of the order of the external steps and of the loop devices *)

\* C24: in every run of mount_disk the external steps come in the order
\* attach, enumerate, mount: a parted or mount command is issued only after
\* a losetup that succeeded, a mount only after the enumeration, and a
\* failed losetup is the last command of its run, which ends in failure.
C24_AttachEnumerateMount ==
    run = "mount_disk" =>
        \A i \in CmdIdx :
            /\ cmds[i].tool \in {"parted", "mount"} =>
                  \E j \in 1..(i - 1) : cmds[j].tool = "losetup" /\ cmds[j].ok
            /\ cmds[i].tool = "mount" =>
                  \E j \in 1..(i - 1) : cmds[j].tool = "parted"
            /\ (cmds[i].tool = "losetup" /\ ~cmds[i].ok) =>
                  (i = Len(cmds) /\ pc = "done" /\ result = "fail")

C24_Witness ==
    /\ run = "mount_disk" /\ pc = "done" /\ result = "ok"
    /\ Len(cmds) = 4
    /\ cmds[1].tool = "mkdir"
    /\ cmds[2].tool = "losetup" /\ cmds[2].ok
    /\ cmds[3].tool = "parted" /\ cmds[3].ok
    /\ cmds[4].tool = "mount" /\ cmds[4].ok

\* C25: no step of the program detaches a loop device: over every step of
\* mount_disk and unmount_disk the set of attached loop devices keeps all
\* its members, and the only losetup command issued is the attaching one.
C25_LoopDevicesOnlyGrow ==
    [][/\ loops \subseteq loops'
       /\ \A i \in 1..Len(cmds') :
             cmds'[i].tool = "losetup" => cmds'[i].opts = "--show -fP"]_vars

\* a run attached a device and failed at the enumeration; a later run
\* mounted and a successful unmount_disk followed: both devices are attached
C25_Witness ==
    /\ run = "unmount_disk" /\ pc = "done" /\ result = "ok"
    /\ mounted = <<>>
    /\ mnt_dir = "absent"
    /\ loops = {DeviceName(0), DeviceName(1)}

\* C29: when the operator aborts the partition prompt (the enumeration has
\* succeeded and no choice was made), the run issues no mount command.
C29_AbortedPromptMountsNothing ==
    (run = "mount_disk" /\ pc \in {"fallback", "done"} /\ Succeeded("parted")
        /\ choice = <<>>) =>
        ~Issued("mount")

---------------------------------------------------------------------------
(* Properties of two mount_disk processes on one mount point *)

\* the process that runs and the one that waits
BothProcesses == {Running, parked}

IssuedBy(r, tool, ok) ==
    \E i \in 1..Len(r.cmds) : r.cmds[i].tool = tool /\ r.cmds[i].ok = ok

\* C27: the emptiness check is each process's own and only guard, and no
\* step takes a lock: a process attaches and mounts only after its own
\* listing showed the mount point empty, whatever the other process has done
\* since, and the commands it issues are mkdir, losetup, parted and mount
\* only.  (That two processes then both mount is the witness.)
C27_CheckIsTheOnlyGuard ==
    \A r \in BothProcesses :
        r.run = "mount_disk" =>
            /\ \A i \in 1..Len(r.cmds) :
                  /\ r.cmds[i].tool \in {"mkdir", "losetup", "parted", "mount"}
                  /\ r.cmds[i].tool # "mkdir" => r.listing = "empty"
            /\ r.pc \in {"setup_loop", "get_partitions", "prompt", "mount_partition",
                         "fallback"} => r.listing = "empty"

\* both processes listed the empty directory, each attached a device and
\* each mounted; the mount below holds files, so the second check was made
\* before the first mount
C27_Witness ==
    /\ \A r \in BothProcesses :
          /\ r.run = "mount_disk" /\ r.pc = "done" /\ r.result = "ok"
          /\ r.listing = "empty"
          /\ IssuedBy(r, "losetup", TRUE)
          /\ IssuedBy(r, "mount", TRUE)
    /\ Running.loop_device # parked.loop_device
    /\ Cardinality(loops) = 2
    /\ Len(mounted) = 2
    /\ ~mounted[1].empty

---------------------------------------------------------------------------
(* Properties of the permission search *)

\* C30: find_files_by_permissions given an existing directory (here one
\* that holds files) passes its path validation and goes on to the search
\* over that directory; it does not end at the validation.
C30_DirectoryReachesSearch ==
    (walk.cmd = "find_files_by_permissions" /\ walk.files # <<>>) =>
        /\ walk_pc # "exited"
        /\ walk_report = <<>> \/ walk_report[1].at # 0

=============================================================================
